---- MODULE Spec2Model ----
(***************************************************************************)
(* LLMChessArena, src/src/llmchessarena/game.py: the game loop of main(),  *)
(* get_llm_move() and get_player_choice(), with the parts of python-chess  *)
(* and llama_cpp that the loop calls.                                      *)
(*                                                                         *)
(* Text is a sequence of one-character strings; a white-space character   *)
(* with no escape in TLA+ is written by its code point, "U+00A0".  The     *)
(* board is the chess.Board of python-chess for standard chess: all 64     *)
(* squares, castling, en passant, promotion, and the draw rules.           *)
(***************************************************************************)
EXTENDS Integers, Sequences, FiniteSets, TLC

VARIABLES
    pc,                 \* position of main(): "choice", "loop", "propose", "parse", "push", "report", "done", "crash"
    user_model_name,    \* game.py:100
    bot_model_name,     \* game.py:100
    board,              \* game.py:104, the chess.Board
    is_white_turn,      \* game.py:113
    current_model_name, \* game.py:114
    move_uci,           \* game.py:120
    move,               \* game.py:124
    winner,             \* game.py:129 / 134, the forfeit winner
    forfeit,            \* which forfeit message was printed: "none", "illegal move", "invalid format"
    report,             \* what step 4 printed: result string, tag and checkmate winner
    prompt_fen,         \* the FEN embedded in the last prompt, game.py:66
    invoked,            \* the model name the last Proposal Source call went to
    n_invocations,      \* number of Proposal Source calls so far
    n_tests,            \* number of legality tests (move in board.legal_moves) so far
    n_pushes,           \* number of board.push calls so far
    tested,             \* the last legality test: the move, the board it ran on, its answer
    raw                 \* what the Proposal Source did on the last call

vars == <<pc, user_model_name, bot_model_name, board, is_white_turn,
          current_model_name, move_uci, move, winner, forfeit, report,
          prompt_fen, invoked, n_invocations, n_tests, n_pushes, tested, raw>>

-----------------------------------------------------------------------------
(* Text helpers: Python str operations on sequences of characters.          *)

SP == " "
NL == "\n"
TAB == "\t"
CR == "\r"
FF == "\f"

\* The white-space characters that have no escape in a TLA+ string stand as
\* their code points: each is one character of the text
VT == "U+000B"
NEL == "U+0085"
NBSP == "U+00A0"

\* the separators U+001C to U+001F
AsciiSeparators == {"U+001C", "U+001D", "U+001E", "U+001F"}

\* the spaces of Unicode beyond U+00A0
UnicodeSpaces ==
    {"U+1680", "U+2000", "U+2001", "U+2002", "U+2003", "U+2004", "U+2005", "U+2006",
     "U+2007", "U+2008", "U+2009", "U+200A", "U+2028", "U+2029", "U+202F", "U+205F",
     "U+3000"}

\* str.strip() with no argument strips the characters for which
\* str.isspace() holds from both ends: game.py:73 and 85
Whitespace ==
    {SP, NL, TAB, CR, FF, VT, NEL, NBSP} \cup AsciiSeparators \cup UnicodeSpaces

UpperCase == <<"A","B","C","D","E","F","G","H","I","J","K","L","M",
               "N","O","P","Q","R","S","T","U","V","W","X","Y","Z">>
LowerCase == <<"a","b","c","d","e","f","g","h","i","j","k","l","m",
               "n","o","p","q","r","s","t","u","v","w","x","y","z">>

\* The characters beyond ASCII that str.lower() changes, each with its
\* lower-case form (Unicode 14.0, the character database of CPython 3.11):
\* a text of one character, or of two for U+0130
UnicodeLower ==
    {
      <<"U+00C0", <<"U+00E0">>>>, <<"U+00C1", <<"U+00E1">>>>, <<"U+00C2", <<"U+00E2">>>>, <<"U+00C3", <<"U+00E3">>>>,
      <<"U+00C4", <<"U+00E4">>>>, <<"U+00C5", <<"U+00E5">>>>, <<"U+00C6", <<"U+00E6">>>>, <<"U+00C7", <<"U+00E7">>>>,
      <<"U+00C8", <<"U+00E8">>>>, <<"U+00C9", <<"U+00E9">>>>, <<"U+00CA", <<"U+00EA">>>>, <<"U+00CB", <<"U+00EB">>>>,
      <<"U+00CC", <<"U+00EC">>>>, <<"U+00CD", <<"U+00ED">>>>, <<"U+00CE", <<"U+00EE">>>>, <<"U+00CF", <<"U+00EF">>>>,
      <<"U+00D0", <<"U+00F0">>>>, <<"U+00D1", <<"U+00F1">>>>, <<"U+00D2", <<"U+00F2">>>>, <<"U+00D3", <<"U+00F3">>>>,
      <<"U+00D4", <<"U+00F4">>>>, <<"U+00D5", <<"U+00F5">>>>, <<"U+00D6", <<"U+00F6">>>>, <<"U+00D8", <<"U+00F8">>>>,
      <<"U+00D9", <<"U+00F9">>>>, <<"U+00DA", <<"U+00FA">>>>, <<"U+00DB", <<"U+00FB">>>>, <<"U+00DC", <<"U+00FC">>>>,
      <<"U+00DD", <<"U+00FD">>>>, <<"U+00DE", <<"U+00FE">>>>, <<"U+0100", <<"U+0101">>>>, <<"U+0102", <<"U+0103">>>>,
      <<"U+0104", <<"U+0105">>>>, <<"U+0106", <<"U+0107">>>>, <<"U+0108", <<"U+0109">>>>, <<"U+010A", <<"U+010B">>>>,
      <<"U+010C", <<"U+010D">>>>, <<"U+010E", <<"U+010F">>>>, <<"U+0110", <<"U+0111">>>>, <<"U+0112", <<"U+0113">>>>,
      <<"U+0114", <<"U+0115">>>>, <<"U+0116", <<"U+0117">>>>, <<"U+0118", <<"U+0119">>>>, <<"U+011A", <<"U+011B">>>>,
      <<"U+011C", <<"U+011D">>>>, <<"U+011E", <<"U+011F">>>>, <<"U+0120", <<"U+0121">>>>, <<"U+0122", <<"U+0123">>>>,
      <<"U+0124", <<"U+0125">>>>, <<"U+0126", <<"U+0127">>>>, <<"U+0128", <<"U+0129">>>>, <<"U+012A", <<"U+012B">>>>,
      <<"U+012C", <<"U+012D">>>>, <<"U+012E", <<"U+012F">>>>, <<"U+0130", <<"i", "U+0307">>>>, <<"U+0132", <<"U+0133">>>>,
      <<"U+0134", <<"U+0135">>>>, <<"U+0136", <<"U+0137">>>>, <<"U+0139", <<"U+013A">>>>, <<"U+013B", <<"U+013C">>>>,
      <<"U+013D", <<"U+013E">>>>, <<"U+013F", <<"U+0140">>>>, <<"U+0141", <<"U+0142">>>>, <<"U+0143", <<"U+0144">>>>,
      <<"U+0145", <<"U+0146">>>>, <<"U+0147", <<"U+0148">>>>, <<"U+014A", <<"U+014B">>>>, <<"U+014C", <<"U+014D">>>>,
      <<"U+014E", <<"U+014F">>>>, <<"U+0150", <<"U+0151">>>>, <<"U+0152", <<"U+0153">>>>, <<"U+0154", <<"U+0155">>>>,
      <<"U+0156", <<"U+0157">>>>, <<"U+0158", <<"U+0159">>>>, <<"U+015A", <<"U+015B">>>>, <<"U+015C", <<"U+015D">>>>,
      <<"U+015E", <<"U+015F">>>>, <<"U+0160", <<"U+0161">>>>, <<"U+0162", <<"U+0163">>>>, <<"U+0164", <<"U+0165">>>>,
      <<"U+0166", <<"U+0167">>>>, <<"U+0168", <<"U+0169">>>>, <<"U+016A", <<"U+016B">>>>, <<"U+016C", <<"U+016D">>>>,
      <<"U+016E", <<"U+016F">>>>, <<"U+0170", <<"U+0171">>>>, <<"U+0172", <<"U+0173">>>>, <<"U+0174", <<"U+0175">>>>,
      <<"U+0176", <<"U+0177">>>>, <<"U+0178", <<"U+00FF">>>>, <<"U+0179", <<"U+017A">>>>, <<"U+017B", <<"U+017C">>>>,
      <<"U+017D", <<"U+017E">>>>, <<"U+0181", <<"U+0253">>>>, <<"U+0182", <<"U+0183">>>>, <<"U+0184", <<"U+0185">>>>,
      <<"U+0186", <<"U+0254">>>>, <<"U+0187", <<"U+0188">>>>, <<"U+0189", <<"U+0256">>>>, <<"U+018A", <<"U+0257">>>>,
      <<"U+018B", <<"U+018C">>>>, <<"U+018E", <<"U+01DD">>>>, <<"U+018F", <<"U+0259">>>>, <<"U+0190", <<"U+025B">>>>,
      <<"U+0191", <<"U+0192">>>>, <<"U+0193", <<"U+0260">>>>, <<"U+0194", <<"U+0263">>>>, <<"U+0196", <<"U+0269">>>>,
      <<"U+0197", <<"U+0268">>>>, <<"U+0198", <<"U+0199">>>>, <<"U+019C", <<"U+026F">>>>, <<"U+019D", <<"U+0272">>>>,
      <<"U+019F", <<"U+0275">>>>, <<"U+01A0", <<"U+01A1">>>>, <<"U+01A2", <<"U+01A3">>>>, <<"U+01A4", <<"U+01A5">>>>,
      <<"U+01A6", <<"U+0280">>>>, <<"U+01A7", <<"U+01A8">>>>, <<"U+01A9", <<"U+0283">>>>, <<"U+01AC", <<"U+01AD">>>>,
      <<"U+01AE", <<"U+0288">>>>, <<"U+01AF", <<"U+01B0">>>>, <<"U+01B1", <<"U+028A">>>>, <<"U+01B2", <<"U+028B">>>>,
      <<"U+01B3", <<"U+01B4">>>>, <<"U+01B5", <<"U+01B6">>>>, <<"U+01B7", <<"U+0292">>>>, <<"U+01B8", <<"U+01B9">>>>,
      <<"U+01BC", <<"U+01BD">>>>, <<"U+01C4", <<"U+01C6">>>>, <<"U+01C5", <<"U+01C6">>>>, <<"U+01C7", <<"U+01C9">>>>,
      <<"U+01C8", <<"U+01C9">>>>, <<"U+01CA", <<"U+01CC">>>>, <<"U+01CB", <<"U+01CC">>>>, <<"U+01CD", <<"U+01CE">>>>,
      <<"U+01CF", <<"U+01D0">>>>, <<"U+01D1", <<"U+01D2">>>>, <<"U+01D3", <<"U+01D4">>>>, <<"U+01D5", <<"U+01D6">>>>,
      <<"U+01D7", <<"U+01D8">>>>, <<"U+01D9", <<"U+01DA">>>>, <<"U+01DB", <<"U+01DC">>>>, <<"U+01DE", <<"U+01DF">>>>,
      <<"U+01E0", <<"U+01E1">>>>, <<"U+01E2", <<"U+01E3">>>>, <<"U+01E4", <<"U+01E5">>>>, <<"U+01E6", <<"U+01E7">>>>,
      <<"U+01E8", <<"U+01E9">>>>, <<"U+01EA", <<"U+01EB">>>>, <<"U+01EC", <<"U+01ED">>>>, <<"U+01EE", <<"U+01EF">>>>,
      <<"U+01F1", <<"U+01F3">>>>, <<"U+01F2", <<"U+01F3">>>>, <<"U+01F4", <<"U+01F5">>>>, <<"U+01F6", <<"U+0195">>>>,
      <<"U+01F7", <<"U+01BF">>>>, <<"U+01F8", <<"U+01F9">>>>, <<"U+01FA", <<"U+01FB">>>>, <<"U+01FC", <<"U+01FD">>>>,
      <<"U+01FE", <<"U+01FF">>>>, <<"U+0200", <<"U+0201">>>>, <<"U+0202", <<"U+0203">>>>, <<"U+0204", <<"U+0205">>>>,
      <<"U+0206", <<"U+0207">>>>, <<"U+0208", <<"U+0209">>>>, <<"U+020A", <<"U+020B">>>>, <<"U+020C", <<"U+020D">>>>,
      <<"U+020E", <<"U+020F">>>>, <<"U+0210", <<"U+0211">>>>, <<"U+0212", <<"U+0213">>>>, <<"U+0214", <<"U+0215">>>>,
      <<"U+0216", <<"U+0217">>>>, <<"U+0218", <<"U+0219">>>>, <<"U+021A", <<"U+021B">>>>, <<"U+021C", <<"U+021D">>>>,
      <<"U+021E", <<"U+021F">>>>, <<"U+0220", <<"U+019E">>>>, <<"U+0222", <<"U+0223">>>>, <<"U+0224", <<"U+0225">>>>,
      <<"U+0226", <<"U+0227">>>>, <<"U+0228", <<"U+0229">>>>, <<"U+022A", <<"U+022B">>>>, <<"U+022C", <<"U+022D">>>>,
      <<"U+022E", <<"U+022F">>>>, <<"U+0230", <<"U+0231">>>>, <<"U+0232", <<"U+0233">>>>, <<"U+023A", <<"U+2C65">>>>,
      <<"U+023B", <<"U+023C">>>>, <<"U+023D", <<"U+019A">>>>, <<"U+023E", <<"U+2C66">>>>, <<"U+0241", <<"U+0242">>>>,
      <<"U+0243", <<"U+0180">>>>, <<"U+0244", <<"U+0289">>>>, <<"U+0245", <<"U+028C">>>>, <<"U+0246", <<"U+0247">>>>,
      <<"U+0248", <<"U+0249">>>>, <<"U+024A", <<"U+024B">>>>, <<"U+024C", <<"U+024D">>>>, <<"U+024E", <<"U+024F">>>>,
      <<"U+0370", <<"U+0371">>>>, <<"U+0372", <<"U+0373">>>>, <<"U+0376", <<"U+0377">>>>, <<"U+037F", <<"U+03F3">>>>,
      <<"U+0386", <<"U+03AC">>>>, <<"U+0388", <<"U+03AD">>>>, <<"U+0389", <<"U+03AE">>>>, <<"U+038A", <<"U+03AF">>>>,
      <<"U+038C", <<"U+03CC">>>>, <<"U+038E", <<"U+03CD">>>>, <<"U+038F", <<"U+03CE">>>>, <<"U+0391", <<"U+03B1">>>>,
      <<"U+0392", <<"U+03B2">>>>, <<"U+0393", <<"U+03B3">>>>, <<"U+0394", <<"U+03B4">>>>, <<"U+0395", <<"U+03B5">>>>,
      <<"U+0396", <<"U+03B6">>>>, <<"U+0397", <<"U+03B7">>>>, <<"U+0398", <<"U+03B8">>>>, <<"U+0399", <<"U+03B9">>>>,
      <<"U+039A", <<"U+03BA">>>>, <<"U+039B", <<"U+03BB">>>>, <<"U+039C", <<"U+03BC">>>>, <<"U+039D", <<"U+03BD">>>>,
      <<"U+039E", <<"U+03BE">>>>, <<"U+039F", <<"U+03BF">>>>, <<"U+03A0", <<"U+03C0">>>>, <<"U+03A1", <<"U+03C1">>>>,
      <<"U+03A3", <<"U+03C3">>>>, <<"U+03A4", <<"U+03C4">>>>, <<"U+03A5", <<"U+03C5">>>>, <<"U+03A6", <<"U+03C6">>>>,
      <<"U+03A7", <<"U+03C7">>>>, <<"U+03A8", <<"U+03C8">>>>, <<"U+03A9", <<"U+03C9">>>>, <<"U+03AA", <<"U+03CA">>>>,
      <<"U+03AB", <<"U+03CB">>>>, <<"U+03CF", <<"U+03D7">>>>, <<"U+03D8", <<"U+03D9">>>>, <<"U+03DA", <<"U+03DB">>>>,
      <<"U+03DC", <<"U+03DD">>>>, <<"U+03DE", <<"U+03DF">>>>, <<"U+03E0", <<"U+03E1">>>>, <<"U+03E2", <<"U+03E3">>>>,
      <<"U+03E4", <<"U+03E5">>>>, <<"U+03E6", <<"U+03E7">>>>, <<"U+03E8", <<"U+03E9">>>>, <<"U+03EA", <<"U+03EB">>>>,
      <<"U+03EC", <<"U+03ED">>>>, <<"U+03EE", <<"U+03EF">>>>, <<"U+03F4", <<"U+03B8">>>>, <<"U+03F7", <<"U+03F8">>>>,
      <<"U+03F9", <<"U+03F2">>>>, <<"U+03FA", <<"U+03FB">>>>, <<"U+03FD", <<"U+037B">>>>, <<"U+03FE", <<"U+037C">>>>,
      <<"U+03FF", <<"U+037D">>>>, <<"U+0400", <<"U+0450">>>>, <<"U+0401", <<"U+0451">>>>, <<"U+0402", <<"U+0452">>>>,
      <<"U+0403", <<"U+0453">>>>, <<"U+0404", <<"U+0454">>>>, <<"U+0405", <<"U+0455">>>>, <<"U+0406", <<"U+0456">>>>,
      <<"U+0407", <<"U+0457">>>>, <<"U+0408", <<"U+0458">>>>, <<"U+0409", <<"U+0459">>>>, <<"U+040A", <<"U+045A">>>>,
      <<"U+040B", <<"U+045B">>>>, <<"U+040C", <<"U+045C">>>>, <<"U+040D", <<"U+045D">>>>, <<"U+040E", <<"U+045E">>>>,
      <<"U+040F", <<"U+045F">>>>, <<"U+0410", <<"U+0430">>>>, <<"U+0411", <<"U+0431">>>>, <<"U+0412", <<"U+0432">>>>,
      <<"U+0413", <<"U+0433">>>>, <<"U+0414", <<"U+0434">>>>, <<"U+0415", <<"U+0435">>>>, <<"U+0416", <<"U+0436">>>>,
      <<"U+0417", <<"U+0437">>>>, <<"U+0418", <<"U+0438">>>>, <<"U+0419", <<"U+0439">>>>, <<"U+041A", <<"U+043A">>>>,
      <<"U+041B", <<"U+043B">>>>, <<"U+041C", <<"U+043C">>>>, <<"U+041D", <<"U+043D">>>>, <<"U+041E", <<"U+043E">>>>,
      <<"U+041F", <<"U+043F">>>>, <<"U+0420", <<"U+0440">>>>, <<"U+0421", <<"U+0441">>>>, <<"U+0422", <<"U+0442">>>>,
      <<"U+0423", <<"U+0443">>>>, <<"U+0424", <<"U+0444">>>>, <<"U+0425", <<"U+0445">>>>, <<"U+0426", <<"U+0446">>>>,
      <<"U+0427", <<"U+0447">>>>, <<"U+0428", <<"U+0448">>>>, <<"U+0429", <<"U+0449">>>>, <<"U+042A", <<"U+044A">>>>,
      <<"U+042B", <<"U+044B">>>>, <<"U+042C", <<"U+044C">>>>, <<"U+042D", <<"U+044D">>>>, <<"U+042E", <<"U+044E">>>>,
      <<"U+042F", <<"U+044F">>>>, <<"U+0460", <<"U+0461">>>>, <<"U+0462", <<"U+0463">>>>, <<"U+0464", <<"U+0465">>>>,
      <<"U+0466", <<"U+0467">>>>, <<"U+0468", <<"U+0469">>>>, <<"U+046A", <<"U+046B">>>>, <<"U+046C", <<"U+046D">>>>,
      <<"U+046E", <<"U+046F">>>>, <<"U+0470", <<"U+0471">>>>, <<"U+0472", <<"U+0473">>>>, <<"U+0474", <<"U+0475">>>>,
      <<"U+0476", <<"U+0477">>>>, <<"U+0478", <<"U+0479">>>>, <<"U+047A", <<"U+047B">>>>, <<"U+047C", <<"U+047D">>>>,
      <<"U+047E", <<"U+047F">>>>, <<"U+0480", <<"U+0481">>>>, <<"U+048A", <<"U+048B">>>>, <<"U+048C", <<"U+048D">>>>,
      <<"U+048E", <<"U+048F">>>>, <<"U+0490", <<"U+0491">>>>, <<"U+0492", <<"U+0493">>>>, <<"U+0494", <<"U+0495">>>>,
      <<"U+0496", <<"U+0497">>>>, <<"U+0498", <<"U+0499">>>>, <<"U+049A", <<"U+049B">>>>, <<"U+049C", <<"U+049D">>>>,
      <<"U+049E", <<"U+049F">>>>, <<"U+04A0", <<"U+04A1">>>>, <<"U+04A2", <<"U+04A3">>>>, <<"U+04A4", <<"U+04A5">>>>,
      <<"U+04A6", <<"U+04A7">>>>, <<"U+04A8", <<"U+04A9">>>>, <<"U+04AA", <<"U+04AB">>>>, <<"U+04AC", <<"U+04AD">>>>,
      <<"U+04AE", <<"U+04AF">>>>, <<"U+04B0", <<"U+04B1">>>>, <<"U+04B2", <<"U+04B3">>>>, <<"U+04B4", <<"U+04B5">>>>,
      <<"U+04B6", <<"U+04B7">>>>, <<"U+04B8", <<"U+04B9">>>>, <<"U+04BA", <<"U+04BB">>>>, <<"U+04BC", <<"U+04BD">>>>,
      <<"U+04BE", <<"U+04BF">>>>, <<"U+04C0", <<"U+04CF">>>>, <<"U+04C1", <<"U+04C2">>>>, <<"U+04C3", <<"U+04C4">>>>,
      <<"U+04C5", <<"U+04C6">>>>, <<"U+04C7", <<"U+04C8">>>>, <<"U+04C9", <<"U+04CA">>>>, <<"U+04CB", <<"U+04CC">>>>,
      <<"U+04CD", <<"U+04CE">>>>, <<"U+04D0", <<"U+04D1">>>>, <<"U+04D2", <<"U+04D3">>>>, <<"U+04D4", <<"U+04D5">>>>,
      <<"U+04D6", <<"U+04D7">>>>, <<"U+04D8", <<"U+04D9">>>>, <<"U+04DA", <<"U+04DB">>>>, <<"U+04DC", <<"U+04DD">>>>,
      <<"U+04DE", <<"U+04DF">>>>, <<"U+04E0", <<"U+04E1">>>>, <<"U+04E2", <<"U+04E3">>>>, <<"U+04E4", <<"U+04E5">>>>,
      <<"U+04E6", <<"U+04E7">>>>, <<"U+04E8", <<"U+04E9">>>>, <<"U+04EA", <<"U+04EB">>>>, <<"U+04EC", <<"U+04ED">>>>,
      <<"U+04EE", <<"U+04EF">>>>, <<"U+04F0", <<"U+04F1">>>>, <<"U+04F2", <<"U+04F3">>>>, <<"U+04F4", <<"U+04F5">>>>,
      <<"U+04F6", <<"U+04F7">>>>, <<"U+04F8", <<"U+04F9">>>>, <<"U+04FA", <<"U+04FB">>>>, <<"U+04FC", <<"U+04FD">>>>,
      <<"U+04FE", <<"U+04FF">>>>, <<"U+0500", <<"U+0501">>>>, <<"U+0502", <<"U+0503">>>>, <<"U+0504", <<"U+0505">>>>,
      <<"U+0506", <<"U+0507">>>>, <<"U+0508", <<"U+0509">>>>, <<"U+050A", <<"U+050B">>>>, <<"U+050C", <<"U+050D">>>>,
      <<"U+050E", <<"U+050F">>>>, <<"U+0510", <<"U+0511">>>>, <<"U+0512", <<"U+0513">>>>, <<"U+0514", <<"U+0515">>>>,
      <<"U+0516", <<"U+0517">>>>, <<"U+0518", <<"U+0519">>>>, <<"U+051A", <<"U+051B">>>>, <<"U+051C", <<"U+051D">>>>,
      <<"U+051E", <<"U+051F">>>>, <<"U+0520", <<"U+0521">>>>, <<"U+0522", <<"U+0523">>>>, <<"U+0524", <<"U+0525">>>>,
      <<"U+0526", <<"U+0527">>>>, <<"U+0528", <<"U+0529">>>>, <<"U+052A", <<"U+052B">>>>, <<"U+052C", <<"U+052D">>>>,
      <<"U+052E", <<"U+052F">>>>, <<"U+0531", <<"U+0561">>>>, <<"U+0532", <<"U+0562">>>>, <<"U+0533", <<"U+0563">>>>,
      <<"U+0534", <<"U+0564">>>>, <<"U+0535", <<"U+0565">>>>, <<"U+0536", <<"U+0566">>>>, <<"U+0537", <<"U+0567">>>>,
      <<"U+0538", <<"U+0568">>>>, <<"U+0539", <<"U+0569">>>>, <<"U+053A", <<"U+056A">>>>, <<"U+053B", <<"U+056B">>>>,
      <<"U+053C", <<"U+056C">>>>, <<"U+053D", <<"U+056D">>>>, <<"U+053E", <<"U+056E">>>>, <<"U+053F", <<"U+056F">>>>,
      <<"U+0540", <<"U+0570">>>>, <<"U+0541", <<"U+0571">>>>, <<"U+0542", <<"U+0572">>>>, <<"U+0543", <<"U+0573">>>>,
      <<"U+0544", <<"U+0574">>>>, <<"U+0545", <<"U+0575">>>>, <<"U+0546", <<"U+0576">>>>, <<"U+0547", <<"U+0577">>>>,
      <<"U+0548", <<"U+0578">>>>, <<"U+0549", <<"U+0579">>>>, <<"U+054A", <<"U+057A">>>>, <<"U+054B", <<"U+057B">>>>,
      <<"U+054C", <<"U+057C">>>>, <<"U+054D", <<"U+057D">>>>, <<"U+054E", <<"U+057E">>>>, <<"U+054F", <<"U+057F">>>>,
      <<"U+0550", <<"U+0580">>>>, <<"U+0551", <<"U+0581">>>>, <<"U+0552", <<"U+0582">>>>, <<"U+0553", <<"U+0583">>>>,
      <<"U+0554", <<"U+0584">>>>, <<"U+0555", <<"U+0585">>>>, <<"U+0556", <<"U+0586">>>>, <<"U+10A0", <<"U+2D00">>>>,
      <<"U+10A1", <<"U+2D01">>>>, <<"U+10A2", <<"U+2D02">>>>, <<"U+10A3", <<"U+2D03">>>>, <<"U+10A4", <<"U+2D04">>>>,
      <<"U+10A5", <<"U+2D05">>>>, <<"U+10A6", <<"U+2D06">>>>, <<"U+10A7", <<"U+2D07">>>>, <<"U+10A8", <<"U+2D08">>>>,
      <<"U+10A9", <<"U+2D09">>>>, <<"U+10AA", <<"U+2D0A">>>>, <<"U+10AB", <<"U+2D0B">>>>, <<"U+10AC", <<"U+2D0C">>>>,
      <<"U+10AD", <<"U+2D0D">>>>, <<"U+10AE", <<"U+2D0E">>>>, <<"U+10AF", <<"U+2D0F">>>>, <<"U+10B0", <<"U+2D10">>>>,
      <<"U+10B1", <<"U+2D11">>>>, <<"U+10B2", <<"U+2D12">>>>, <<"U+10B3", <<"U+2D13">>>>, <<"U+10B4", <<"U+2D14">>>>,
      <<"U+10B5", <<"U+2D15">>>>, <<"U+10B6", <<"U+2D16">>>>, <<"U+10B7", <<"U+2D17">>>>, <<"U+10B8", <<"U+2D18">>>>,
      <<"U+10B9", <<"U+2D19">>>>, <<"U+10BA", <<"U+2D1A">>>>, <<"U+10BB", <<"U+2D1B">>>>, <<"U+10BC", <<"U+2D1C">>>>,
      <<"U+10BD", <<"U+2D1D">>>>, <<"U+10BE", <<"U+2D1E">>>>, <<"U+10BF", <<"U+2D1F">>>>, <<"U+10C0", <<"U+2D20">>>>,
      <<"U+10C1", <<"U+2D21">>>>, <<"U+10C2", <<"U+2D22">>>>, <<"U+10C3", <<"U+2D23">>>>, <<"U+10C4", <<"U+2D24">>>>,
      <<"U+10C5", <<"U+2D25">>>>, <<"U+10C7", <<"U+2D27">>>>, <<"U+10CD", <<"U+2D2D">>>>, <<"U+13A0", <<"U+AB70">>>>,
      <<"U+13A1", <<"U+AB71">>>>, <<"U+13A2", <<"U+AB72">>>>, <<"U+13A3", <<"U+AB73">>>>, <<"U+13A4", <<"U+AB74">>>>,
      <<"U+13A5", <<"U+AB75">>>>, <<"U+13A6", <<"U+AB76">>>>, <<"U+13A7", <<"U+AB77">>>>, <<"U+13A8", <<"U+AB78">>>>,
      <<"U+13A9", <<"U+AB79">>>>, <<"U+13AA", <<"U+AB7A">>>>, <<"U+13AB", <<"U+AB7B">>>>, <<"U+13AC", <<"U+AB7C">>>>,
      <<"U+13AD", <<"U+AB7D">>>>, <<"U+13AE", <<"U+AB7E">>>>, <<"U+13AF", <<"U+AB7F">>>>, <<"U+13B0", <<"U+AB80">>>>,
      <<"U+13B1", <<"U+AB81">>>>, <<"U+13B2", <<"U+AB82">>>>, <<"U+13B3", <<"U+AB83">>>>, <<"U+13B4", <<"U+AB84">>>>,
      <<"U+13B5", <<"U+AB85">>>>, <<"U+13B6", <<"U+AB86">>>>, <<"U+13B7", <<"U+AB87">>>>, <<"U+13B8", <<"U+AB88">>>>,
      <<"U+13B9", <<"U+AB89">>>>, <<"U+13BA", <<"U+AB8A">>>>, <<"U+13BB", <<"U+AB8B">>>>, <<"U+13BC", <<"U+AB8C">>>>,
      <<"U+13BD", <<"U+AB8D">>>>, <<"U+13BE", <<"U+AB8E">>>>, <<"U+13BF", <<"U+AB8F">>>>, <<"U+13C0", <<"U+AB90">>>>,
      <<"U+13C1", <<"U+AB91">>>>, <<"U+13C2", <<"U+AB92">>>>, <<"U+13C3", <<"U+AB93">>>>, <<"U+13C4", <<"U+AB94">>>>,
      <<"U+13C5", <<"U+AB95">>>>, <<"U+13C6", <<"U+AB96">>>>, <<"U+13C7", <<"U+AB97">>>>, <<"U+13C8", <<"U+AB98">>>>,
      <<"U+13C9", <<"U+AB99">>>>, <<"U+13CA", <<"U+AB9A">>>>, <<"U+13CB", <<"U+AB9B">>>>, <<"U+13CC", <<"U+AB9C">>>>,
      <<"U+13CD", <<"U+AB9D">>>>, <<"U+13CE", <<"U+AB9E">>>>, <<"U+13CF", <<"U+AB9F">>>>, <<"U+13D0", <<"U+ABA0">>>>,
      <<"U+13D1", <<"U+ABA1">>>>, <<"U+13D2", <<"U+ABA2">>>>, <<"U+13D3", <<"U+ABA3">>>>, <<"U+13D4", <<"U+ABA4">>>>,
      <<"U+13D5", <<"U+ABA5">>>>, <<"U+13D6", <<"U+ABA6">>>>, <<"U+13D7", <<"U+ABA7">>>>, <<"U+13D8", <<"U+ABA8">>>>,
      <<"U+13D9", <<"U+ABA9">>>>, <<"U+13DA", <<"U+ABAA">>>>, <<"U+13DB", <<"U+ABAB">>>>, <<"U+13DC", <<"U+ABAC">>>>,
      <<"U+13DD", <<"U+ABAD">>>>, <<"U+13DE", <<"U+ABAE">>>>, <<"U+13DF", <<"U+ABAF">>>>, <<"U+13E0", <<"U+ABB0">>>>,
      <<"U+13E1", <<"U+ABB1">>>>, <<"U+13E2", <<"U+ABB2">>>>, <<"U+13E3", <<"U+ABB3">>>>, <<"U+13E4", <<"U+ABB4">>>>,
      <<"U+13E5", <<"U+ABB5">>>>, <<"U+13E6", <<"U+ABB6">>>>, <<"U+13E7", <<"U+ABB7">>>>, <<"U+13E8", <<"U+ABB8">>>>,
      <<"U+13E9", <<"U+ABB9">>>>, <<"U+13EA", <<"U+ABBA">>>>, <<"U+13EB", <<"U+ABBB">>>>, <<"U+13EC", <<"U+ABBC">>>>,
      <<"U+13ED", <<"U+ABBD">>>>, <<"U+13EE", <<"U+ABBE">>>>, <<"U+13EF", <<"U+ABBF">>>>, <<"U+13F0", <<"U+13F8">>>>,
      <<"U+13F1", <<"U+13F9">>>>, <<"U+13F2", <<"U+13FA">>>>, <<"U+13F3", <<"U+13FB">>>>, <<"U+13F4", <<"U+13FC">>>>,
      <<"U+13F5", <<"U+13FD">>>>, <<"U+1C90", <<"U+10D0">>>>, <<"U+1C91", <<"U+10D1">>>>, <<"U+1C92", <<"U+10D2">>>>,
      <<"U+1C93", <<"U+10D3">>>>, <<"U+1C94", <<"U+10D4">>>>, <<"U+1C95", <<"U+10D5">>>>, <<"U+1C96", <<"U+10D6">>>>,
      <<"U+1C97", <<"U+10D7">>>>, <<"U+1C98", <<"U+10D8">>>>, <<"U+1C99", <<"U+10D9">>>>, <<"U+1C9A", <<"U+10DA">>>>,
      <<"U+1C9B", <<"U+10DB">>>>, <<"U+1C9C", <<"U+10DC">>>>, <<"U+1C9D", <<"U+10DD">>>>, <<"U+1C9E", <<"U+10DE">>>>,
      <<"U+1C9F", <<"U+10DF">>>>, <<"U+1CA0", <<"U+10E0">>>>, <<"U+1CA1", <<"U+10E1">>>>, <<"U+1CA2", <<"U+10E2">>>>,
      <<"U+1CA3", <<"U+10E3">>>>, <<"U+1CA4", <<"U+10E4">>>>, <<"U+1CA5", <<"U+10E5">>>>, <<"U+1CA6", <<"U+10E6">>>>,
      <<"U+1CA7", <<"U+10E7">>>>, <<"U+1CA8", <<"U+10E8">>>>, <<"U+1CA9", <<"U+10E9">>>>, <<"U+1CAA", <<"U+10EA">>>>,
      <<"U+1CAB", <<"U+10EB">>>>, <<"U+1CAC", <<"U+10EC">>>>, <<"U+1CAD", <<"U+10ED">>>>, <<"U+1CAE", <<"U+10EE">>>>,
      <<"U+1CAF", <<"U+10EF">>>>, <<"U+1CB0", <<"U+10F0">>>>, <<"U+1CB1", <<"U+10F1">>>>, <<"U+1CB2", <<"U+10F2">>>>,
      <<"U+1CB3", <<"U+10F3">>>>, <<"U+1CB4", <<"U+10F4">>>>, <<"U+1CB5", <<"U+10F5">>>>, <<"U+1CB6", <<"U+10F6">>>>,
      <<"U+1CB7", <<"U+10F7">>>>, <<"U+1CB8", <<"U+10F8">>>>, <<"U+1CB9", <<"U+10F9">>>>, <<"U+1CBA", <<"U+10FA">>>>,
      <<"U+1CBD", <<"U+10FD">>>>, <<"U+1CBE", <<"U+10FE">>>>, <<"U+1CBF", <<"U+10FF">>>>, <<"U+1E00", <<"U+1E01">>>>,
      <<"U+1E02", <<"U+1E03">>>>, <<"U+1E04", <<"U+1E05">>>>, <<"U+1E06", <<"U+1E07">>>>, <<"U+1E08", <<"U+1E09">>>>,
      <<"U+1E0A", <<"U+1E0B">>>>, <<"U+1E0C", <<"U+1E0D">>>>, <<"U+1E0E", <<"U+1E0F">>>>, <<"U+1E10", <<"U+1E11">>>>,
      <<"U+1E12", <<"U+1E13">>>>, <<"U+1E14", <<"U+1E15">>>>, <<"U+1E16", <<"U+1E17">>>>, <<"U+1E18", <<"U+1E19">>>>,
      <<"U+1E1A", <<"U+1E1B">>>>, <<"U+1E1C", <<"U+1E1D">>>>, <<"U+1E1E", <<"U+1E1F">>>>, <<"U+1E20", <<"U+1E21">>>>,
      <<"U+1E22", <<"U+1E23">>>>, <<"U+1E24", <<"U+1E25">>>>, <<"U+1E26", <<"U+1E27">>>>, <<"U+1E28", <<"U+1E29">>>>,
      <<"U+1E2A", <<"U+1E2B">>>>, <<"U+1E2C", <<"U+1E2D">>>>, <<"U+1E2E", <<"U+1E2F">>>>, <<"U+1E30", <<"U+1E31">>>>,
      <<"U+1E32", <<"U+1E33">>>>, <<"U+1E34", <<"U+1E35">>>>, <<"U+1E36", <<"U+1E37">>>>, <<"U+1E38", <<"U+1E39">>>>,
      <<"U+1E3A", <<"U+1E3B">>>>, <<"U+1E3C", <<"U+1E3D">>>>, <<"U+1E3E", <<"U+1E3F">>>>, <<"U+1E40", <<"U+1E41">>>>,
      <<"U+1E42", <<"U+1E43">>>>, <<"U+1E44", <<"U+1E45">>>>, <<"U+1E46", <<"U+1E47">>>>, <<"U+1E48", <<"U+1E49">>>>,
      <<"U+1E4A", <<"U+1E4B">>>>, <<"U+1E4C", <<"U+1E4D">>>>, <<"U+1E4E", <<"U+1E4F">>>>, <<"U+1E50", <<"U+1E51">>>>,
      <<"U+1E52", <<"U+1E53">>>>, <<"U+1E54", <<"U+1E55">>>>, <<"U+1E56", <<"U+1E57">>>>, <<"U+1E58", <<"U+1E59">>>>,
      <<"U+1E5A", <<"U+1E5B">>>>, <<"U+1E5C", <<"U+1E5D">>>>, <<"U+1E5E", <<"U+1E5F">>>>, <<"U+1E60", <<"U+1E61">>>>,
      <<"U+1E62", <<"U+1E63">>>>, <<"U+1E64", <<"U+1E65">>>>, <<"U+1E66", <<"U+1E67">>>>, <<"U+1E68", <<"U+1E69">>>>,
      <<"U+1E6A", <<"U+1E6B">>>>, <<"U+1E6C", <<"U+1E6D">>>>, <<"U+1E6E", <<"U+1E6F">>>>, <<"U+1E70", <<"U+1E71">>>>,
      <<"U+1E72", <<"U+1E73">>>>, <<"U+1E74", <<"U+1E75">>>>, <<"U+1E76", <<"U+1E77">>>>, <<"U+1E78", <<"U+1E79">>>>,
      <<"U+1E7A", <<"U+1E7B">>>>, <<"U+1E7C", <<"U+1E7D">>>>, <<"U+1E7E", <<"U+1E7F">>>>, <<"U+1E80", <<"U+1E81">>>>,
      <<"U+1E82", <<"U+1E83">>>>, <<"U+1E84", <<"U+1E85">>>>, <<"U+1E86", <<"U+1E87">>>>, <<"U+1E88", <<"U+1E89">>>>,
      <<"U+1E8A", <<"U+1E8B">>>>, <<"U+1E8C", <<"U+1E8D">>>>, <<"U+1E8E", <<"U+1E8F">>>>, <<"U+1E90", <<"U+1E91">>>>,
      <<"U+1E92", <<"U+1E93">>>>, <<"U+1E94", <<"U+1E95">>>>, <<"U+1E9E", <<"U+00DF">>>>, <<"U+1EA0", <<"U+1EA1">>>>,
      <<"U+1EA2", <<"U+1EA3">>>>, <<"U+1EA4", <<"U+1EA5">>>>, <<"U+1EA6", <<"U+1EA7">>>>, <<"U+1EA8", <<"U+1EA9">>>>,
      <<"U+1EAA", <<"U+1EAB">>>>, <<"U+1EAC", <<"U+1EAD">>>>, <<"U+1EAE", <<"U+1EAF">>>>, <<"U+1EB0", <<"U+1EB1">>>>,
      <<"U+1EB2", <<"U+1EB3">>>>, <<"U+1EB4", <<"U+1EB5">>>>, <<"U+1EB6", <<"U+1EB7">>>>, <<"U+1EB8", <<"U+1EB9">>>>,
      <<"U+1EBA", <<"U+1EBB">>>>, <<"U+1EBC", <<"U+1EBD">>>>, <<"U+1EBE", <<"U+1EBF">>>>, <<"U+1EC0", <<"U+1EC1">>>>,
      <<"U+1EC2", <<"U+1EC3">>>>, <<"U+1EC4", <<"U+1EC5">>>>, <<"U+1EC6", <<"U+1EC7">>>>, <<"U+1EC8", <<"U+1EC9">>>>,
      <<"U+1ECA", <<"U+1ECB">>>>, <<"U+1ECC", <<"U+1ECD">>>>, <<"U+1ECE", <<"U+1ECF">>>>, <<"U+1ED0", <<"U+1ED1">>>>,
      <<"U+1ED2", <<"U+1ED3">>>>, <<"U+1ED4", <<"U+1ED5">>>>, <<"U+1ED6", <<"U+1ED7">>>>, <<"U+1ED8", <<"U+1ED9">>>>,
      <<"U+1EDA", <<"U+1EDB">>>>, <<"U+1EDC", <<"U+1EDD">>>>, <<"U+1EDE", <<"U+1EDF">>>>, <<"U+1EE0", <<"U+1EE1">>>>,
      <<"U+1EE2", <<"U+1EE3">>>>, <<"U+1EE4", <<"U+1EE5">>>>, <<"U+1EE6", <<"U+1EE7">>>>, <<"U+1EE8", <<"U+1EE9">>>>,
      <<"U+1EEA", <<"U+1EEB">>>>, <<"U+1EEC", <<"U+1EED">>>>, <<"U+1EEE", <<"U+1EEF">>>>, <<"U+1EF0", <<"U+1EF1">>>>,
      <<"U+1EF2", <<"U+1EF3">>>>, <<"U+1EF4", <<"U+1EF5">>>>, <<"U+1EF6", <<"U+1EF7">>>>, <<"U+1EF8", <<"U+1EF9">>>>,
      <<"U+1EFA", <<"U+1EFB">>>>, <<"U+1EFC", <<"U+1EFD">>>>, <<"U+1EFE", <<"U+1EFF">>>>, <<"U+1F08", <<"U+1F00">>>>,
      <<"U+1F09", <<"U+1F01">>>>, <<"U+1F0A", <<"U+1F02">>>>, <<"U+1F0B", <<"U+1F03">>>>, <<"U+1F0C", <<"U+1F04">>>>,
      <<"U+1F0D", <<"U+1F05">>>>, <<"U+1F0E", <<"U+1F06">>>>, <<"U+1F0F", <<"U+1F07">>>>, <<"U+1F18", <<"U+1F10">>>>,
      <<"U+1F19", <<"U+1F11">>>>, <<"U+1F1A", <<"U+1F12">>>>, <<"U+1F1B", <<"U+1F13">>>>, <<"U+1F1C", <<"U+1F14">>>>,
      <<"U+1F1D", <<"U+1F15">>>>, <<"U+1F28", <<"U+1F20">>>>, <<"U+1F29", <<"U+1F21">>>>, <<"U+1F2A", <<"U+1F22">>>>,
      <<"U+1F2B", <<"U+1F23">>>>, <<"U+1F2C", <<"U+1F24">>>>, <<"U+1F2D", <<"U+1F25">>>>, <<"U+1F2E", <<"U+1F26">>>>,
      <<"U+1F2F", <<"U+1F27">>>>, <<"U+1F38", <<"U+1F30">>>>, <<"U+1F39", <<"U+1F31">>>>, <<"U+1F3A", <<"U+1F32">>>>,
      <<"U+1F3B", <<"U+1F33">>>>, <<"U+1F3C", <<"U+1F34">>>>, <<"U+1F3D", <<"U+1F35">>>>, <<"U+1F3E", <<"U+1F36">>>>,
      <<"U+1F3F", <<"U+1F37">>>>, <<"U+1F48", <<"U+1F40">>>>, <<"U+1F49", <<"U+1F41">>>>, <<"U+1F4A", <<"U+1F42">>>>,
      <<"U+1F4B", <<"U+1F43">>>>, <<"U+1F4C", <<"U+1F44">>>>, <<"U+1F4D", <<"U+1F45">>>>, <<"U+1F59", <<"U+1F51">>>>,
      <<"U+1F5B", <<"U+1F53">>>>, <<"U+1F5D", <<"U+1F55">>>>, <<"U+1F5F", <<"U+1F57">>>>, <<"U+1F68", <<"U+1F60">>>>,
      <<"U+1F69", <<"U+1F61">>>>, <<"U+1F6A", <<"U+1F62">>>>, <<"U+1F6B", <<"U+1F63">>>>, <<"U+1F6C", <<"U+1F64">>>>,
      <<"U+1F6D", <<"U+1F65">>>>, <<"U+1F6E", <<"U+1F66">>>>, <<"U+1F6F", <<"U+1F67">>>>, <<"U+1F88", <<"U+1F80">>>>,
      <<"U+1F89", <<"U+1F81">>>>, <<"U+1F8A", <<"U+1F82">>>>, <<"U+1F8B", <<"U+1F83">>>>, <<"U+1F8C", <<"U+1F84">>>>,
      <<"U+1F8D", <<"U+1F85">>>>, <<"U+1F8E", <<"U+1F86">>>>, <<"U+1F8F", <<"U+1F87">>>>, <<"U+1F98", <<"U+1F90">>>>,
      <<"U+1F99", <<"U+1F91">>>>, <<"U+1F9A", <<"U+1F92">>>>, <<"U+1F9B", <<"U+1F93">>>>, <<"U+1F9C", <<"U+1F94">>>>,
      <<"U+1F9D", <<"U+1F95">>>>, <<"U+1F9E", <<"U+1F96">>>>, <<"U+1F9F", <<"U+1F97">>>>, <<"U+1FA8", <<"U+1FA0">>>>,
      <<"U+1FA9", <<"U+1FA1">>>>, <<"U+1FAA", <<"U+1FA2">>>>, <<"U+1FAB", <<"U+1FA3">>>>, <<"U+1FAC", <<"U+1FA4">>>>,
      <<"U+1FAD", <<"U+1FA5">>>>, <<"U+1FAE", <<"U+1FA6">>>>, <<"U+1FAF", <<"U+1FA7">>>>, <<"U+1FB8", <<"U+1FB0">>>>,
      <<"U+1FB9", <<"U+1FB1">>>>, <<"U+1FBA", <<"U+1F70">>>>, <<"U+1FBB", <<"U+1F71">>>>, <<"U+1FBC", <<"U+1FB3">>>>,
      <<"U+1FC8", <<"U+1F72">>>>, <<"U+1FC9", <<"U+1F73">>>>, <<"U+1FCA", <<"U+1F74">>>>, <<"U+1FCB", <<"U+1F75">>>>,
      <<"U+1FCC", <<"U+1FC3">>>>, <<"U+1FD8", <<"U+1FD0">>>>, <<"U+1FD9", <<"U+1FD1">>>>, <<"U+1FDA", <<"U+1F76">>>>,
      <<"U+1FDB", <<"U+1F77">>>>, <<"U+1FE8", <<"U+1FE0">>>>, <<"U+1FE9", <<"U+1FE1">>>>, <<"U+1FEA", <<"U+1F7A">>>>,
      <<"U+1FEB", <<"U+1F7B">>>>, <<"U+1FEC", <<"U+1FE5">>>>, <<"U+1FF8", <<"U+1F78">>>>, <<"U+1FF9", <<"U+1F79">>>>,
      <<"U+1FFA", <<"U+1F7C">>>>, <<"U+1FFB", <<"U+1F7D">>>>, <<"U+1FFC", <<"U+1FF3">>>>, <<"U+2126", <<"U+03C9">>>>,
      <<"U+212A", <<"k">>>>, <<"U+212B", <<"U+00E5">>>>, <<"U+2132", <<"U+214E">>>>, <<"U+2160", <<"U+2170">>>>,
      <<"U+2161", <<"U+2171">>>>, <<"U+2162", <<"U+2172">>>>, <<"U+2163", <<"U+2173">>>>, <<"U+2164", <<"U+2174">>>>,
      <<"U+2165", <<"U+2175">>>>, <<"U+2166", <<"U+2176">>>>, <<"U+2167", <<"U+2177">>>>, <<"U+2168", <<"U+2178">>>>,
      <<"U+2169", <<"U+2179">>>>, <<"U+216A", <<"U+217A">>>>, <<"U+216B", <<"U+217B">>>>, <<"U+216C", <<"U+217C">>>>,
      <<"U+216D", <<"U+217D">>>>, <<"U+216E", <<"U+217E">>>>, <<"U+216F", <<"U+217F">>>>, <<"U+2183", <<"U+2184">>>>,
      <<"U+24B6", <<"U+24D0">>>>, <<"U+24B7", <<"U+24D1">>>>, <<"U+24B8", <<"U+24D2">>>>, <<"U+24B9", <<"U+24D3">>>>,
      <<"U+24BA", <<"U+24D4">>>>, <<"U+24BB", <<"U+24D5">>>>, <<"U+24BC", <<"U+24D6">>>>, <<"U+24BD", <<"U+24D7">>>>,
      <<"U+24BE", <<"U+24D8">>>>, <<"U+24BF", <<"U+24D9">>>>, <<"U+24C0", <<"U+24DA">>>>, <<"U+24C1", <<"U+24DB">>>>,
      <<"U+24C2", <<"U+24DC">>>>, <<"U+24C3", <<"U+24DD">>>>, <<"U+24C4", <<"U+24DE">>>>, <<"U+24C5", <<"U+24DF">>>>,
      <<"U+24C6", <<"U+24E0">>>>, <<"U+24C7", <<"U+24E1">>>>, <<"U+24C8", <<"U+24E2">>>>, <<"U+24C9", <<"U+24E3">>>>,
      <<"U+24CA", <<"U+24E4">>>>, <<"U+24CB", <<"U+24E5">>>>, <<"U+24CC", <<"U+24E6">>>>, <<"U+24CD", <<"U+24E7">>>>,
      <<"U+24CE", <<"U+24E8">>>>, <<"U+24CF", <<"U+24E9">>>>, <<"U+2C00", <<"U+2C30">>>>, <<"U+2C01", <<"U+2C31">>>>,
      <<"U+2C02", <<"U+2C32">>>>, <<"U+2C03", <<"U+2C33">>>>, <<"U+2C04", <<"U+2C34">>>>, <<"U+2C05", <<"U+2C35">>>>,
      <<"U+2C06", <<"U+2C36">>>>, <<"U+2C07", <<"U+2C37">>>>, <<"U+2C08", <<"U+2C38">>>>, <<"U+2C09", <<"U+2C39">>>>,
      <<"U+2C0A", <<"U+2C3A">>>>, <<"U+2C0B", <<"U+2C3B">>>>, <<"U+2C0C", <<"U+2C3C">>>>, <<"U+2C0D", <<"U+2C3D">>>>,
      <<"U+2C0E", <<"U+2C3E">>>>, <<"U+2C0F", <<"U+2C3F">>>>, <<"U+2C10", <<"U+2C40">>>>, <<"U+2C11", <<"U+2C41">>>>,
      <<"U+2C12", <<"U+2C42">>>>, <<"U+2C13", <<"U+2C43">>>>, <<"U+2C14", <<"U+2C44">>>>, <<"U+2C15", <<"U+2C45">>>>,
      <<"U+2C16", <<"U+2C46">>>>, <<"U+2C17", <<"U+2C47">>>>, <<"U+2C18", <<"U+2C48">>>>, <<"U+2C19", <<"U+2C49">>>>,
      <<"U+2C1A", <<"U+2C4A">>>>, <<"U+2C1B", <<"U+2C4B">>>>, <<"U+2C1C", <<"U+2C4C">>>>, <<"U+2C1D", <<"U+2C4D">>>>,
      <<"U+2C1E", <<"U+2C4E">>>>, <<"U+2C1F", <<"U+2C4F">>>>, <<"U+2C20", <<"U+2C50">>>>, <<"U+2C21", <<"U+2C51">>>>,
      <<"U+2C22", <<"U+2C52">>>>, <<"U+2C23", <<"U+2C53">>>>, <<"U+2C24", <<"U+2C54">>>>, <<"U+2C25", <<"U+2C55">>>>,
      <<"U+2C26", <<"U+2C56">>>>, <<"U+2C27", <<"U+2C57">>>>, <<"U+2C28", <<"U+2C58">>>>, <<"U+2C29", <<"U+2C59">>>>,
      <<"U+2C2A", <<"U+2C5A">>>>, <<"U+2C2B", <<"U+2C5B">>>>, <<"U+2C2C", <<"U+2C5C">>>>, <<"U+2C2D", <<"U+2C5D">>>>,
      <<"U+2C2E", <<"U+2C5E">>>>, <<"U+2C2F", <<"U+2C5F">>>>, <<"U+2C60", <<"U+2C61">>>>, <<"U+2C62", <<"U+026B">>>>,
      <<"U+2C63", <<"U+1D7D">>>>, <<"U+2C64", <<"U+027D">>>>, <<"U+2C67", <<"U+2C68">>>>, <<"U+2C69", <<"U+2C6A">>>>,
      <<"U+2C6B", <<"U+2C6C">>>>, <<"U+2C6D", <<"U+0251">>>>, <<"U+2C6E", <<"U+0271">>>>, <<"U+2C6F", <<"U+0250">>>>,
      <<"U+2C70", <<"U+0252">>>>, <<"U+2C72", <<"U+2C73">>>>, <<"U+2C75", <<"U+2C76">>>>, <<"U+2C7E", <<"U+023F">>>>,
      <<"U+2C7F", <<"U+0240">>>>, <<"U+2C80", <<"U+2C81">>>>, <<"U+2C82", <<"U+2C83">>>>, <<"U+2C84", <<"U+2C85">>>>,
      <<"U+2C86", <<"U+2C87">>>>, <<"U+2C88", <<"U+2C89">>>>, <<"U+2C8A", <<"U+2C8B">>>>, <<"U+2C8C", <<"U+2C8D">>>>,
      <<"U+2C8E", <<"U+2C8F">>>>, <<"U+2C90", <<"U+2C91">>>>, <<"U+2C92", <<"U+2C93">>>>, <<"U+2C94", <<"U+2C95">>>>,
      <<"U+2C96", <<"U+2C97">>>>, <<"U+2C98", <<"U+2C99">>>>, <<"U+2C9A", <<"U+2C9B">>>>, <<"U+2C9C", <<"U+2C9D">>>>,
      <<"U+2C9E", <<"U+2C9F">>>>, <<"U+2CA0", <<"U+2CA1">>>>, <<"U+2CA2", <<"U+2CA3">>>>, <<"U+2CA4", <<"U+2CA5">>>>,
      <<"U+2CA6", <<"U+2CA7">>>>, <<"U+2CA8", <<"U+2CA9">>>>, <<"U+2CAA", <<"U+2CAB">>>>, <<"U+2CAC", <<"U+2CAD">>>>,
      <<"U+2CAE", <<"U+2CAF">>>>, <<"U+2CB0", <<"U+2CB1">>>>, <<"U+2CB2", <<"U+2CB3">>>>, <<"U+2CB4", <<"U+2CB5">>>>,
      <<"U+2CB6", <<"U+2CB7">>>>, <<"U+2CB8", <<"U+2CB9">>>>, <<"U+2CBA", <<"U+2CBB">>>>, <<"U+2CBC", <<"U+2CBD">>>>,
      <<"U+2CBE", <<"U+2CBF">>>>, <<"U+2CC0", <<"U+2CC1">>>>, <<"U+2CC2", <<"U+2CC3">>>>, <<"U+2CC4", <<"U+2CC5">>>>,
      <<"U+2CC6", <<"U+2CC7">>>>, <<"U+2CC8", <<"U+2CC9">>>>, <<"U+2CCA", <<"U+2CCB">>>>, <<"U+2CCC", <<"U+2CCD">>>>,
      <<"U+2CCE", <<"U+2CCF">>>>, <<"U+2CD0", <<"U+2CD1">>>>, <<"U+2CD2", <<"U+2CD3">>>>, <<"U+2CD4", <<"U+2CD5">>>>,
      <<"U+2CD6", <<"U+2CD7">>>>, <<"U+2CD8", <<"U+2CD9">>>>, <<"U+2CDA", <<"U+2CDB">>>>, <<"U+2CDC", <<"U+2CDD">>>>,
      <<"U+2CDE", <<"U+2CDF">>>>, <<"U+2CE0", <<"U+2CE1">>>>, <<"U+2CE2", <<"U+2CE3">>>>, <<"U+2CEB", <<"U+2CEC">>>>,
      <<"U+2CED", <<"U+2CEE">>>>, <<"U+2CF2", <<"U+2CF3">>>>, <<"U+A640", <<"U+A641">>>>, <<"U+A642", <<"U+A643">>>>,
      <<"U+A644", <<"U+A645">>>>, <<"U+A646", <<"U+A647">>>>, <<"U+A648", <<"U+A649">>>>, <<"U+A64A", <<"U+A64B">>>>,
      <<"U+A64C", <<"U+A64D">>>>, <<"U+A64E", <<"U+A64F">>>>, <<"U+A650", <<"U+A651">>>>, <<"U+A652", <<"U+A653">>>>,
      <<"U+A654", <<"U+A655">>>>, <<"U+A656", <<"U+A657">>>>, <<"U+A658", <<"U+A659">>>>, <<"U+A65A", <<"U+A65B">>>>,
      <<"U+A65C", <<"U+A65D">>>>, <<"U+A65E", <<"U+A65F">>>>, <<"U+A660", <<"U+A661">>>>, <<"U+A662", <<"U+A663">>>>,
      <<"U+A664", <<"U+A665">>>>, <<"U+A666", <<"U+A667">>>>, <<"U+A668", <<"U+A669">>>>, <<"U+A66A", <<"U+A66B">>>>,
      <<"U+A66C", <<"U+A66D">>>>, <<"U+A680", <<"U+A681">>>>, <<"U+A682", <<"U+A683">>>>, <<"U+A684", <<"U+A685">>>>,
      <<"U+A686", <<"U+A687">>>>, <<"U+A688", <<"U+A689">>>>, <<"U+A68A", <<"U+A68B">>>>, <<"U+A68C", <<"U+A68D">>>>,
      <<"U+A68E", <<"U+A68F">>>>, <<"U+A690", <<"U+A691">>>>, <<"U+A692", <<"U+A693">>>>, <<"U+A694", <<"U+A695">>>>,
      <<"U+A696", <<"U+A697">>>>, <<"U+A698", <<"U+A699">>>>, <<"U+A69A", <<"U+A69B">>>>, <<"U+A722", <<"U+A723">>>>,
      <<"U+A724", <<"U+A725">>>>, <<"U+A726", <<"U+A727">>>>, <<"U+A728", <<"U+A729">>>>, <<"U+A72A", <<"U+A72B">>>>,
      <<"U+A72C", <<"U+A72D">>>>, <<"U+A72E", <<"U+A72F">>>>, <<"U+A732", <<"U+A733">>>>, <<"U+A734", <<"U+A735">>>>,
      <<"U+A736", <<"U+A737">>>>, <<"U+A738", <<"U+A739">>>>, <<"U+A73A", <<"U+A73B">>>>, <<"U+A73C", <<"U+A73D">>>>,
      <<"U+A73E", <<"U+A73F">>>>, <<"U+A740", <<"U+A741">>>>, <<"U+A742", <<"U+A743">>>>, <<"U+A744", <<"U+A745">>>>,
      <<"U+A746", <<"U+A747">>>>, <<"U+A748", <<"U+A749">>>>, <<"U+A74A", <<"U+A74B">>>>, <<"U+A74C", <<"U+A74D">>>>,
      <<"U+A74E", <<"U+A74F">>>>, <<"U+A750", <<"U+A751">>>>, <<"U+A752", <<"U+A753">>>>, <<"U+A754", <<"U+A755">>>>,
      <<"U+A756", <<"U+A757">>>>, <<"U+A758", <<"U+A759">>>>, <<"U+A75A", <<"U+A75B">>>>, <<"U+A75C", <<"U+A75D">>>>,
      <<"U+A75E", <<"U+A75F">>>>, <<"U+A760", <<"U+A761">>>>, <<"U+A762", <<"U+A763">>>>, <<"U+A764", <<"U+A765">>>>,
      <<"U+A766", <<"U+A767">>>>, <<"U+A768", <<"U+A769">>>>, <<"U+A76A", <<"U+A76B">>>>, <<"U+A76C", <<"U+A76D">>>>,
      <<"U+A76E", <<"U+A76F">>>>, <<"U+A779", <<"U+A77A">>>>, <<"U+A77B", <<"U+A77C">>>>, <<"U+A77D", <<"U+1D79">>>>,
      <<"U+A77E", <<"U+A77F">>>>, <<"U+A780", <<"U+A781">>>>, <<"U+A782", <<"U+A783">>>>, <<"U+A784", <<"U+A785">>>>,
      <<"U+A786", <<"U+A787">>>>, <<"U+A78B", <<"U+A78C">>>>, <<"U+A78D", <<"U+0265">>>>, <<"U+A790", <<"U+A791">>>>,
      <<"U+A792", <<"U+A793">>>>, <<"U+A796", <<"U+A797">>>>, <<"U+A798", <<"U+A799">>>>, <<"U+A79A", <<"U+A79B">>>>,
      <<"U+A79C", <<"U+A79D">>>>, <<"U+A79E", <<"U+A79F">>>>, <<"U+A7A0", <<"U+A7A1">>>>, <<"U+A7A2", <<"U+A7A3">>>>,
      <<"U+A7A4", <<"U+A7A5">>>>, <<"U+A7A6", <<"U+A7A7">>>>, <<"U+A7A8", <<"U+A7A9">>>>, <<"U+A7AA", <<"U+0266">>>>,
      <<"U+A7AB", <<"U+025C">>>>, <<"U+A7AC", <<"U+0261">>>>, <<"U+A7AD", <<"U+026C">>>>, <<"U+A7AE", <<"U+026A">>>>,
      <<"U+A7B0", <<"U+029E">>>>, <<"U+A7B1", <<"U+0287">>>>, <<"U+A7B2", <<"U+029D">>>>, <<"U+A7B3", <<"U+AB53">>>>,
      <<"U+A7B4", <<"U+A7B5">>>>, <<"U+A7B6", <<"U+A7B7">>>>, <<"U+A7B8", <<"U+A7B9">>>>, <<"U+A7BA", <<"U+A7BB">>>>,
      <<"U+A7BC", <<"U+A7BD">>>>, <<"U+A7BE", <<"U+A7BF">>>>, <<"U+A7C0", <<"U+A7C1">>>>, <<"U+A7C2", <<"U+A7C3">>>>,
      <<"U+A7C4", <<"U+A794">>>>, <<"U+A7C5", <<"U+0282">>>>, <<"U+A7C6", <<"U+1D8E">>>>, <<"U+A7C7", <<"U+A7C8">>>>,
      <<"U+A7C9", <<"U+A7CA">>>>, <<"U+A7D0", <<"U+A7D1">>>>, <<"U+A7D6", <<"U+A7D7">>>>, <<"U+A7D8", <<"U+A7D9">>>>,
      <<"U+A7F5", <<"U+A7F6">>>>, <<"U+FF21", <<"U+FF41">>>>, <<"U+FF22", <<"U+FF42">>>>, <<"U+FF23", <<"U+FF43">>>>,
      <<"U+FF24", <<"U+FF44">>>>, <<"U+FF25", <<"U+FF45">>>>, <<"U+FF26", <<"U+FF46">>>>, <<"U+FF27", <<"U+FF47">>>>,
      <<"U+FF28", <<"U+FF48">>>>, <<"U+FF29", <<"U+FF49">>>>, <<"U+FF2A", <<"U+FF4A">>>>, <<"U+FF2B", <<"U+FF4B">>>>,
      <<"U+FF2C", <<"U+FF4C">>>>, <<"U+FF2D", <<"U+FF4D">>>>, <<"U+FF2E", <<"U+FF4E">>>>, <<"U+FF2F", <<"U+FF4F">>>>,
      <<"U+FF30", <<"U+FF50">>>>, <<"U+FF31", <<"U+FF51">>>>, <<"U+FF32", <<"U+FF52">>>>, <<"U+FF33", <<"U+FF53">>>>,
      <<"U+FF34", <<"U+FF54">>>>, <<"U+FF35", <<"U+FF55">>>>, <<"U+FF36", <<"U+FF56">>>>, <<"U+FF37", <<"U+FF57">>>>,
      <<"U+FF38", <<"U+FF58">>>>, <<"U+FF39", <<"U+FF59">>>>, <<"U+FF3A", <<"U+FF5A">>>>, <<"U+10400", <<"U+10428">>>>,
      <<"U+10401", <<"U+10429">>>>, <<"U+10402", <<"U+1042A">>>>, <<"U+10403", <<"U+1042B">>>>, <<"U+10404", <<"U+1042C">>>>,
      <<"U+10405", <<"U+1042D">>>>, <<"U+10406", <<"U+1042E">>>>, <<"U+10407", <<"U+1042F">>>>, <<"U+10408", <<"U+10430">>>>,
      <<"U+10409", <<"U+10431">>>>, <<"U+1040A", <<"U+10432">>>>, <<"U+1040B", <<"U+10433">>>>, <<"U+1040C", <<"U+10434">>>>,
      <<"U+1040D", <<"U+10435">>>>, <<"U+1040E", <<"U+10436">>>>, <<"U+1040F", <<"U+10437">>>>, <<"U+10410", <<"U+10438">>>>,
      <<"U+10411", <<"U+10439">>>>, <<"U+10412", <<"U+1043A">>>>, <<"U+10413", <<"U+1043B">>>>, <<"U+10414", <<"U+1043C">>>>,
      <<"U+10415", <<"U+1043D">>>>, <<"U+10416", <<"U+1043E">>>>, <<"U+10417", <<"U+1043F">>>>, <<"U+10418", <<"U+10440">>>>,
      <<"U+10419", <<"U+10441">>>>, <<"U+1041A", <<"U+10442">>>>, <<"U+1041B", <<"U+10443">>>>, <<"U+1041C", <<"U+10444">>>>,
      <<"U+1041D", <<"U+10445">>>>, <<"U+1041E", <<"U+10446">>>>, <<"U+1041F", <<"U+10447">>>>, <<"U+10420", <<"U+10448">>>>,
      <<"U+10421", <<"U+10449">>>>, <<"U+10422", <<"U+1044A">>>>, <<"U+10423", <<"U+1044B">>>>, <<"U+10424", <<"U+1044C">>>>,
      <<"U+10425", <<"U+1044D">>>>, <<"U+10426", <<"U+1044E">>>>, <<"U+10427", <<"U+1044F">>>>, <<"U+104B0", <<"U+104D8">>>>,
      <<"U+104B1", <<"U+104D9">>>>, <<"U+104B2", <<"U+104DA">>>>, <<"U+104B3", <<"U+104DB">>>>, <<"U+104B4", <<"U+104DC">>>>,
      <<"U+104B5", <<"U+104DD">>>>, <<"U+104B6", <<"U+104DE">>>>, <<"U+104B7", <<"U+104DF">>>>, <<"U+104B8", <<"U+104E0">>>>,
      <<"U+104B9", <<"U+104E1">>>>, <<"U+104BA", <<"U+104E2">>>>, <<"U+104BB", <<"U+104E3">>>>, <<"U+104BC", <<"U+104E4">>>>,
      <<"U+104BD", <<"U+104E5">>>>, <<"U+104BE", <<"U+104E6">>>>, <<"U+104BF", <<"U+104E7">>>>, <<"U+104C0", <<"U+104E8">>>>,
      <<"U+104C1", <<"U+104E9">>>>, <<"U+104C2", <<"U+104EA">>>>, <<"U+104C3", <<"U+104EB">>>>, <<"U+104C4", <<"U+104EC">>>>,
      <<"U+104C5", <<"U+104ED">>>>, <<"U+104C6", <<"U+104EE">>>>, <<"U+104C7", <<"U+104EF">>>>, <<"U+104C8", <<"U+104F0">>>>,
      <<"U+104C9", <<"U+104F1">>>>, <<"U+104CA", <<"U+104F2">>>>, <<"U+104CB", <<"U+104F3">>>>, <<"U+104CC", <<"U+104F4">>>>,
      <<"U+104CD", <<"U+104F5">>>>, <<"U+104CE", <<"U+104F6">>>>, <<"U+104CF", <<"U+104F7">>>>, <<"U+104D0", <<"U+104F8">>>>,
      <<"U+104D1", <<"U+104F9">>>>, <<"U+104D2", <<"U+104FA">>>>, <<"U+104D3", <<"U+104FB">>>>, <<"U+10570", <<"U+10597">>>>,
      <<"U+10571", <<"U+10598">>>>, <<"U+10572", <<"U+10599">>>>, <<"U+10573", <<"U+1059A">>>>, <<"U+10574", <<"U+1059B">>>>,
      <<"U+10575", <<"U+1059C">>>>, <<"U+10576", <<"U+1059D">>>>, <<"U+10577", <<"U+1059E">>>>, <<"U+10578", <<"U+1059F">>>>,
      <<"U+10579", <<"U+105A0">>>>, <<"U+1057A", <<"U+105A1">>>>, <<"U+1057C", <<"U+105A3">>>>, <<"U+1057D", <<"U+105A4">>>>,
      <<"U+1057E", <<"U+105A5">>>>, <<"U+1057F", <<"U+105A6">>>>, <<"U+10580", <<"U+105A7">>>>, <<"U+10581", <<"U+105A8">>>>,
      <<"U+10582", <<"U+105A9">>>>, <<"U+10583", <<"U+105AA">>>>, <<"U+10584", <<"U+105AB">>>>, <<"U+10585", <<"U+105AC">>>>,
      <<"U+10586", <<"U+105AD">>>>, <<"U+10587", <<"U+105AE">>>>, <<"U+10588", <<"U+105AF">>>>, <<"U+10589", <<"U+105B0">>>>,
      <<"U+1058A", <<"U+105B1">>>>, <<"U+1058C", <<"U+105B3">>>>, <<"U+1058D", <<"U+105B4">>>>, <<"U+1058E", <<"U+105B5">>>>,
      <<"U+1058F", <<"U+105B6">>>>, <<"U+10590", <<"U+105B7">>>>, <<"U+10591", <<"U+105B8">>>>, <<"U+10592", <<"U+105B9">>>>,
      <<"U+10594", <<"U+105BB">>>>, <<"U+10595", <<"U+105BC">>>>, <<"U+10C80", <<"U+10CC0">>>>, <<"U+10C81", <<"U+10CC1">>>>,
      <<"U+10C82", <<"U+10CC2">>>>, <<"U+10C83", <<"U+10CC3">>>>, <<"U+10C84", <<"U+10CC4">>>>, <<"U+10C85", <<"U+10CC5">>>>,
      <<"U+10C86", <<"U+10CC6">>>>, <<"U+10C87", <<"U+10CC7">>>>, <<"U+10C88", <<"U+10CC8">>>>, <<"U+10C89", <<"U+10CC9">>>>,
      <<"U+10C8A", <<"U+10CCA">>>>, <<"U+10C8B", <<"U+10CCB">>>>, <<"U+10C8C", <<"U+10CCC">>>>, <<"U+10C8D", <<"U+10CCD">>>>,
      <<"U+10C8E", <<"U+10CCE">>>>, <<"U+10C8F", <<"U+10CCF">>>>, <<"U+10C90", <<"U+10CD0">>>>, <<"U+10C91", <<"U+10CD1">>>>,
      <<"U+10C92", <<"U+10CD2">>>>, <<"U+10C93", <<"U+10CD3">>>>, <<"U+10C94", <<"U+10CD4">>>>, <<"U+10C95", <<"U+10CD5">>>>,
      <<"U+10C96", <<"U+10CD6">>>>, <<"U+10C97", <<"U+10CD7">>>>, <<"U+10C98", <<"U+10CD8">>>>, <<"U+10C99", <<"U+10CD9">>>>,
      <<"U+10C9A", <<"U+10CDA">>>>, <<"U+10C9B", <<"U+10CDB">>>>, <<"U+10C9C", <<"U+10CDC">>>>, <<"U+10C9D", <<"U+10CDD">>>>,
      <<"U+10C9E", <<"U+10CDE">>>>, <<"U+10C9F", <<"U+10CDF">>>>, <<"U+10CA0", <<"U+10CE0">>>>, <<"U+10CA1", <<"U+10CE1">>>>,
      <<"U+10CA2", <<"U+10CE2">>>>, <<"U+10CA3", <<"U+10CE3">>>>, <<"U+10CA4", <<"U+10CE4">>>>, <<"U+10CA5", <<"U+10CE5">>>>,
      <<"U+10CA6", <<"U+10CE6">>>>, <<"U+10CA7", <<"U+10CE7">>>>, <<"U+10CA8", <<"U+10CE8">>>>, <<"U+10CA9", <<"U+10CE9">>>>,
      <<"U+10CAA", <<"U+10CEA">>>>, <<"U+10CAB", <<"U+10CEB">>>>, <<"U+10CAC", <<"U+10CEC">>>>, <<"U+10CAD", <<"U+10CED">>>>,
      <<"U+10CAE", <<"U+10CEE">>>>, <<"U+10CAF", <<"U+10CEF">>>>, <<"U+10CB0", <<"U+10CF0">>>>, <<"U+10CB1", <<"U+10CF1">>>>,
      <<"U+10CB2", <<"U+10CF2">>>>, <<"U+118A0", <<"U+118C0">>>>, <<"U+118A1", <<"U+118C1">>>>, <<"U+118A2", <<"U+118C2">>>>,
      <<"U+118A3", <<"U+118C3">>>>, <<"U+118A4", <<"U+118C4">>>>, <<"U+118A5", <<"U+118C5">>>>, <<"U+118A6", <<"U+118C6">>>>,
      <<"U+118A7", <<"U+118C7">>>>, <<"U+118A8", <<"U+118C8">>>>, <<"U+118A9", <<"U+118C9">>>>, <<"U+118AA", <<"U+118CA">>>>,
      <<"U+118AB", <<"U+118CB">>>>, <<"U+118AC", <<"U+118CC">>>>, <<"U+118AD", <<"U+118CD">>>>, <<"U+118AE", <<"U+118CE">>>>,
      <<"U+118AF", <<"U+118CF">>>>, <<"U+118B0", <<"U+118D0">>>>, <<"U+118B1", <<"U+118D1">>>>, <<"U+118B2", <<"U+118D2">>>>,
      <<"U+118B3", <<"U+118D3">>>>, <<"U+118B4", <<"U+118D4">>>>, <<"U+118B5", <<"U+118D5">>>>, <<"U+118B6", <<"U+118D6">>>>,
      <<"U+118B7", <<"U+118D7">>>>, <<"U+118B8", <<"U+118D8">>>>, <<"U+118B9", <<"U+118D9">>>>, <<"U+118BA", <<"U+118DA">>>>,
      <<"U+118BB", <<"U+118DB">>>>, <<"U+118BC", <<"U+118DC">>>>, <<"U+118BD", <<"U+118DD">>>>, <<"U+118BE", <<"U+118DE">>>>,
      <<"U+118BF", <<"U+118DF">>>>, <<"U+16E40", <<"U+16E60">>>>, <<"U+16E41", <<"U+16E61">>>>, <<"U+16E42", <<"U+16E62">>>>,
      <<"U+16E43", <<"U+16E63">>>>, <<"U+16E44", <<"U+16E64">>>>, <<"U+16E45", <<"U+16E65">>>>, <<"U+16E46", <<"U+16E66">>>>,
      <<"U+16E47", <<"U+16E67">>>>, <<"U+16E48", <<"U+16E68">>>>, <<"U+16E49", <<"U+16E69">>>>, <<"U+16E4A", <<"U+16E6A">>>>,
      <<"U+16E4B", <<"U+16E6B">>>>, <<"U+16E4C", <<"U+16E6C">>>>, <<"U+16E4D", <<"U+16E6D">>>>, <<"U+16E4E", <<"U+16E6E">>>>,
      <<"U+16E4F", <<"U+16E6F">>>>, <<"U+16E50", <<"U+16E70">>>>, <<"U+16E51", <<"U+16E71">>>>, <<"U+16E52", <<"U+16E72">>>>,
      <<"U+16E53", <<"U+16E73">>>>, <<"U+16E54", <<"U+16E74">>>>, <<"U+16E55", <<"U+16E75">>>>, <<"U+16E56", <<"U+16E76">>>>,
      <<"U+16E57", <<"U+16E77">>>>, <<"U+16E58", <<"U+16E78">>>>, <<"U+16E59", <<"U+16E79">>>>, <<"U+16E5A", <<"U+16E7A">>>>,
      <<"U+16E5B", <<"U+16E7B">>>>, <<"U+16E5C", <<"U+16E7C">>>>, <<"U+16E5D", <<"U+16E7D">>>>, <<"U+16E5E", <<"U+16E7E">>>>,
      <<"U+16E5F", <<"U+16E7F">>>>, <<"U+1E900", <<"U+1E922">>>>, <<"U+1E901", <<"U+1E923">>>>, <<"U+1E902", <<"U+1E924">>>>,
      <<"U+1E903", <<"U+1E925">>>>, <<"U+1E904", <<"U+1E926">>>>, <<"U+1E905", <<"U+1E927">>>>, <<"U+1E906", <<"U+1E928">>>>,
      <<"U+1E907", <<"U+1E929">>>>, <<"U+1E908", <<"U+1E92A">>>>, <<"U+1E909", <<"U+1E92B">>>>, <<"U+1E90A", <<"U+1E92C">>>>,
      <<"U+1E90B", <<"U+1E92D">>>>, <<"U+1E90C", <<"U+1E92E">>>>, <<"U+1E90D", <<"U+1E92F">>>>, <<"U+1E90E", <<"U+1E930">>>>,
      <<"U+1E90F", <<"U+1E931">>>>, <<"U+1E910", <<"U+1E932">>>>, <<"U+1E911", <<"U+1E933">>>>, <<"U+1E912", <<"U+1E934">>>>,
      <<"U+1E913", <<"U+1E935">>>>, <<"U+1E914", <<"U+1E936">>>>, <<"U+1E915", <<"U+1E937">>>>, <<"U+1E916", <<"U+1E938">>>>,
      <<"U+1E917", <<"U+1E939">>>>, <<"U+1E918", <<"U+1E93A">>>>, <<"U+1E919", <<"U+1E93B">>>>, <<"U+1E91A", <<"U+1E93C">>>>,
      <<"U+1E91B", <<"U+1E93D">>>>, <<"U+1E91C", <<"U+1E93E">>>>, <<"U+1E91D", <<"U+1E93F">>>>, <<"U+1E91E", <<"U+1E940">>>>,
      <<"U+1E91F", <<"U+1E941">>>>, <<"U+1E920", <<"U+1E942">>>>, <<"U+1E921", <<"U+1E943">>>> }

\* the characters of that table
UnicodeUpper == { p[1] : p \in UnicodeLower }

\* str.lower() of one character: a text
Lower(c) ==
    IF \E i \in 1..Len(UpperCase) : UpperCase[i] = c
    THEN <<LowerCase[CHOOSE i \in 1..Len(UpperCase) : UpperCase[i] = c]>>
    ELSE IF c \in UnicodeUpper
    THEN (CHOOSE p \in UnicodeLower : p[1] = c)[2]
    ELSE <<c>>

RECURSIVE LStrip(_)
LStrip(s) == IF s # <<>> /\ Head(s) \in Whitespace THEN LStrip(Tail(s)) ELSE s

RECURSIVE RStrip(_)
RStrip(s) ==
    IF s # <<>> /\ s[Len(s)] \in Whitespace
    THEN RStrip(SubSeq(s, 1, Len(s) - 1))
    ELSE s

\* str.strip()
Strip(s) == RStrip(LStrip(s))

RECURSIVE Concat(_)
\* "".join(tokens)
Concat(tokens) == IF tokens = <<>> THEN <<>> ELSE Head(tokens) \o Concat(Tail(tokens))

\* list.index(x): the 1-based position of x in seq, 0 when x is absent (ValueError)
Index(seq, x) ==
    LET found == { i \in 1..Len(seq) : seq[i] = x }
    IN  IF found = {} THEN 0 ELSE CHOOSE i \in found : \A j \in found : i <= j

\* list.index(text) in a list of one-character strings: a text of any other
\* length is absent
IndexText(seq, text) == IF Len(text) = 1 THEN Index(seq, text[1]) ELSE 0

-----------------------------------------------------------------------------
(* chess.Move.from_uci (python-chess), called at game.py:124               *)

FILE_NAMES == <<"a","b","c","d","e","f","g","h">>
RANK_NAMES == <<"1","2","3","4","5","6","7","8">>
\* chess.PIECE_SYMBOLS[1:], index = piece type (PAWN = 1 .. KING = 6)
PIECE_SYMBOLS == <<"p","n","b","r","q","k">>

\* square index 0..63 of a file 1..8 and a rank 1..8 (chess.square)
Sq(file, rank) == (rank - 1) * 8 + (file - 1)

\* the file letter folded to lower case before the lookup
SquareIndexFolded(f, r) ==
    IF IndexText(FILE_NAMES, Lower(f)) > 0 /\ Index(RANK_NAMES, r) > 0
    THEN Sq(IndexText(FILE_NAMES, Lower(f)), Index(RANK_NAMES, r))
    ELSE -1

\* SQUARE_NAMES.index(two characters): the square, or -1 for ValueError
SquareIndex(f, r) ==
    IF Index(FILE_NAMES, f) > 0 /\ Index(RANK_NAMES, r) > 0
    THEN Sq(Index(FILE_NAMES, f), Index(RANK_NAMES, r))
    ELSE -1

ValueError == [error |-> "ValueError"]

\* a chess.Move; promotion and drop are a piece type 1..6, or 0 for Python's None
Move(from, to, promotion, drop) ==
    [from_square |-> from, to_square |-> to, promotion |-> promotion, drop |-> drop]

\* chess.Move.null()
NullMove == Move(0, 0, 0, 0)

from_uci(uci) ==
    IF uci = <<"0","0","0","0">> THEN NullMove
    ELSE IF Len(uci) = 4 /\ uci[2] = "@" THEN
        LET drop == IndexText(PIECE_SYMBOLS, Lower(uci[1]))
            square == SquareIndex(uci[3], uci[4])
        IN  IF drop = 0 \/ square = -1 THEN ValueError
            ELSE Move(square, square, 0, drop)
    ELSE IF Len(uci) \in {4, 5} THEN
        LET from_square == SquareIndex(uci[1], uci[2])
            to_square == SquareIndex(uci[3], uci[4])
            \* PIECE_SYMBOLS.index(uci[4]) if len(uci) == 5 else None; -1 for ValueError
            promotion == IF Len(uci) = 5
                         THEN (IF Index(PIECE_SYMBOLS, uci[5]) = 0 THEN -1
                               ELSE Index(PIECE_SYMBOLS, uci[5]))
                         ELSE 0
        IN  IF from_square = -1 \/ to_square = -1 \/ promotion = -1 THEN ValueError
            ELSE IF from_square = to_square THEN ValueError
            ELSE Move(from_square, to_square, promotion, 0)
    ELSE ValueError

-----------------------------------------------------------------------------
(* chess.Board (python-chess), standard chess.  A square is 0..63 (a1 = 0,  *)
(* h8 = 63), a piece is its FEN symbol, upper case for White.               *)

WHITE == TRUE
BLACK == FALSE

\* chess.SQUARES
Squares == 0..63

\* chess.square_file and chess.square_rank, both 0..7
square_file(s) == s % 8
square_rank(s) == s \div 8

\* chess.square(file, rank) for 0-based file and rank
square(f, r) == r * 8 + f

A1 == Sq(1, 1)
C1 == Sq(3, 1)
D1 == Sq(4, 1)
E1 == Sq(5, 1)
F1 == Sq(6, 1)
G1 == Sq(7, 1)
H1 == Sq(8, 1)
E2 == Sq(5, 2)
F2 == Sq(6, 2)
G2 == Sq(7, 2)
F3 == Sq(6, 3)
G3 == Sq(7, 3)
E4 == Sq(5, 4)
H4 == Sq(8, 4)
E5 == Sq(5, 5)
F6 == Sq(6, 6)
A8 == Sq(1, 8)
C8 == Sq(3, 8)
D8 == Sq(4, 8)
E8 == Sq(5, 8)
F8 == Sq(6, 8)
G8 == Sq(7, 8)
H8 == Sq(8, 8)

EMPTY == "."

WhiteSymbols == <<"P", "N", "B", "R", "Q", "K">>
WhitePieces == {"P", "N", "B", "R", "Q", "K"}
BlackPieces == {"p", "n", "b", "r", "q", "k"}

IsWhitePiece(p) == p \in WhitePieces
IsBlackPiece(p) == p \in BlackPieces

\* the piece is one of `color`
IsPieceOf(color, p) == IF color = WHITE THEN IsWhitePiece(p) ELSE IsBlackPiece(p)

\* the piece is one of the side to move
IsOwnPiece(b, p) == IsPieceOf(b.turn, p)

\* chess.Piece(piece_type, color).symbol() for a piece type 1..6
PieceSymbol(piece_type, color) ==
    IF color = WHITE THEN WhiteSymbols[piece_type] ELSE PIECE_SYMBOLS[piece_type]

UpperOf == [p |-> "P", n |-> "N", b |-> "B", r |-> "R", q |-> "Q", k |-> "K"]
LetterOf == [P |-> "p", N |-> "n", B |-> "b", R |-> "r", Q |-> "q", K |-> "k",
             p |-> "p", n |-> "n", b |-> "b", r |-> "r", q |-> "q", k |-> "k"]

\* the symbol of the `color` piece with the lower-case letter `letter`
Sym(color, letter) == IF color = WHITE THEN UpperOf[letter] ELSE letter

\* the lower-case letter of a piece symbol, which names its piece type
Letter(p) == IF p = EMPTY THEN EMPTY ELSE LetterOf[p]

\* the pieces of the first rank of the starting position, a-file first
BackRank == <<4, 2, 3, 5, 6, 3, 2, 4>>

\* chess.STARTING_BOARD_FEN
StartPieces ==
    [s \in Squares |->
        CASE square_rank(s) = 0 -> PieceSymbol(BackRank[square_file(s) + 1], WHITE)
          [] square_rank(s) = 1 -> "P"
          [] square_rank(s) = 6 -> "p"
          [] square_rank(s) = 7 -> PieceSymbol(BackRank[square_file(s) + 1], BLACK)
          [] OTHER -> EMPTY]

Abs(x) == IF x < 0 THEN -x ELSE x
Sign(x) == IF x > 0 THEN 1 ELSE IF x < 0 THEN -1 ELSE 0

OnBoard(f, r) == f >= 0 /\ f <= 7 /\ r >= 0 /\ r <= 7

KnightOffsets == { <<1, 2>>, <<2, 1>>, <<2, -1>>, <<1, -2>>,
                   <<-1, -2>>, <<-2, -1>>, <<-2, 1>>, <<-1, 2>> }
RookDirections == { <<1, 0>>, <<0, 1>>, <<-1, 0>>, <<0, -1>> }
BishopDirections == { <<1, 1>>, <<-1, 1>>, <<-1, -1>>, <<1, -1>> }
KingOffsets == RookDirections \cup BishopDirections

\* the occupant of the square at (f, r), EMPTY off the board
At(pieces, f, r) == IF OnBoard(f, r) THEN pieces[square(f, r)] ELSE EMPTY

\* the first piece met from (f, r) in direction (df, dr), EMPTY when the ray
\* runs off the board
RECURSIVE FirstPiece(_, _, _, _, _)
FirstPiece(pieces, f, r, df, dr) ==
    IF ~OnBoard(f + df, r + dr) THEN EMPTY
    ELSE IF pieces[square(f + df, r + dr)] # EMPTY THEN pieces[square(f + df, r + dr)]
    ELSE FirstPiece(pieces, f + df, r + dr, df, dr)

\* Board.is_attacked_by(color, square) on a placement: a piece of `color`
\* attacks square s
is_attacked_by(pieces, color, s) ==
    LET f == square_file(s)
        r == square_rank(s)
        \* a pawn of `color` attacks from one rank behind, seen from its side
        pr == IF color = WHITE THEN r - 1 ELSE r + 1
        pawn == Sym(color, "p")
        knight == Sym(color, "n")
        king_symbol == Sym(color, "k")
        rook_like == {Sym(color, "r"), Sym(color, "q")}
        bishop_like == {Sym(color, "b"), Sym(color, "q")}
    IN  \/ At(pieces, f - 1, pr) = pawn
        \/ At(pieces, f + 1, pr) = pawn
        \/ \E o \in KnightOffsets : At(pieces, f + o[1], r + o[2]) = knight
        \/ \E o \in KingOffsets : At(pieces, f + o[1], r + o[2]) = king_symbol
        \/ \E d \in RookDirections : FirstPiece(pieces, f, r, d[1], d[2]) \in rook_like
        \/ \E d \in BishopDirections : FirstPiece(pieces, f, r, d[1], d[2]) \in bishop_like

\* Board.king(color): the square of the king, -1 for None
king(pieces, color) ==
    LET symbol == Sym(color, "k")
        kings == { s \in Squares : pieces[s] = symbol }
    IN  IF kings = {} THEN -1 ELSE CHOOSE s \in kings : TRUE

\* the king of `color` stands attacked on the placement
KingAttacked(pieces, color) ==
    LET k == king(pieces, color)
    IN  k # -1 /\ is_attacked_by(pieces, ~color, k)

\* Board.is_check()
is_check(b) == KingAttacked(b.pieces, b.turn)

\* the squares strictly between two squares of a line are all empty
BetweenEmpty(pieces, from, to) ==
    LET ff == square_file(from)
        rf == square_rank(from)
        df == square_file(to) - ff
        dr == square_rank(to) - rf
        n == IF Abs(df) > Abs(dr) THEN Abs(df) ELSE Abs(dr)
    IN  \A k \in 1..(n - 1) : pieces[square(ff + k * Sign(df), rf + k * Sign(dr))] = EMPTY

\* Board.attacks_mask(from) holds `to`, for the piece standing on `from`
Attacks(pieces, from, to) ==
    LET p == pieces[from]
        letter == Letter(p)
        df == square_file(to) - square_file(from)
        dr == square_rank(to) - square_rank(from)
        straight == (df = 0) # (dr = 0)
        diagonal == Abs(df) = Abs(dr) /\ df # 0
    IN  CASE letter = "p" -> Abs(df) = 1 /\ dr = (IF IsWhitePiece(p) THEN 1 ELSE -1)
          [] letter = "n" -> <<df, dr>> \in KnightOffsets
          [] letter = "k" -> <<df, dr>> \in KingOffsets
          [] letter = "r" -> straight /\ BetweenEmpty(pieces, from, to)
          [] letter = "b" -> diagonal /\ BetweenEmpty(pieces, from, to)
          [] letter = "q" -> (straight \/ diagonal) /\ BetweenEmpty(pieces, from, to)
          [] OTHER -> FALSE

\* Board.clean_castling_rights(): the rooks that may still castle, on a1, h1,
\* a8 or h8 with their king on e1 or e8
clean_castling_rights(b) ==
    { s \in b.castling_rights :
        \/ s \in {A1, H1} /\ b.pieces[s] = "R" /\ b.pieces[E1] = "K"
        \/ s \in {A8, H8} /\ b.pieces[s] = "r" /\ b.pieces[E8] = "k" }

\* Board.generate_castling_moves() holds the move: the king goes two squares
\* towards a rook that may castle, nothing stands between king and rook, and
\* the king is not attacked on its square, on its way or on arrival
IsCastlingMove(b, m) ==
    LET back == IF b.turn = WHITE THEN 0 ELSE 7
        king_sq == square(4, back)
        a_side == m.to_square = square(2, back)
        rook_sq == IF a_side THEN square(0, back) ELSE square(7, back)
        rook_to == IF a_side THEN square(3, back) ELSE square(5, back)
        without_king == [b.pieces EXCEPT ![king_sq] = EMPTY]
        castled == [b.pieces EXCEPT ![king_sq] = EMPTY, ![rook_sq] = EMPTY,
                                    ![rook_to] = Sym(b.turn, "r")]
    IN  /\ m.from_square = king_sq
        /\ m.to_square \in {square(2, back), square(6, back)}
        /\ m.promotion = 0
        /\ m.drop = 0
        /\ rook_sq \in clean_castling_rights(b)
        /\ BetweenEmpty(b.pieces, king_sq, rook_sq)
        /\ ~is_attacked_by(without_king, ~b.turn, king_sq)
        /\ ~is_attacked_by(without_king, ~b.turn, rook_to)
        /\ ~is_attacked_by(castled, ~b.turn, m.to_square)

\* Board._from_chess960: a king on e1 or e8 "taking" the rook on the a- or
\* h-file of its rank is the castling move to the c- or g-file
from_chess960(b, m) ==
    IF /\ m.promotion = 0 /\ m.drop = 0
       /\ m.from_square \in {E1, E8}
       /\ Letter(b.pieces[m.from_square]) = "k"
       /\ square_rank(m.to_square) = square_rank(m.from_square)
       /\ square_file(m.to_square) \in {0, 7}
    THEN [m EXCEPT !.to_square =
             square(IF square_file(m.to_square) = 0 THEN 2 ELSE 6, square_rank(m.from_square))]
    ELSE m

\* the promotion piece types python-chess generates: queen, rook, bishop, knight
PromotionTypes == {Index(PIECE_SYMBOLS, "q"), Index(PIECE_SYMBOLS, "r"),
                   Index(PIECE_SYMBOLS, "b"), Index(PIECE_SYMBOLS, "n")}

\* Board.generate_pseudo_legal_ep() holds the move
IsEnPassant(b, m) ==
    /\ b.ep_square # -1
    /\ m.to_square = b.ep_square
    /\ b.pieces[b.ep_square] = EMPTY
    /\ b.pieces[m.from_square] = Sym(b.turn, "p")
    /\ square_rank(m.from_square) = (IF b.turn = WHITE THEN 4 ELSE 3)
    /\ Abs(square_file(m.to_square) - square_file(m.from_square)) = 1
    /\ square_rank(m.to_square) - square_rank(m.from_square)
          = (IF b.turn = WHITE THEN 1 ELSE -1)

\* Board.generate_pseudo_legal_moves() holds the move of the pawn on its
\* source square: a capture, a single or a double step, with a promotion
\* piece exactly on the last rank, or an en passant capture
IsPawnMove(b, m) ==
    LET up == IF b.turn = WHITE THEN 1 ELSE -1
        df == square_file(m.to_square) - square_file(m.from_square)
        dr == square_rank(m.to_square) - square_rank(m.from_square)
        target == b.pieces[m.to_square]
        last_rank == square_rank(m.to_square) \in {0, 7}
        double_from == IF b.turn = WHITE THEN {0, 1} ELSE {7, 6}
    IN  \/ /\ \/ Abs(df) = 1 /\ dr = up /\ IsPieceOf(~b.turn, target)
              \/ df = 0 /\ dr = up /\ target = EMPTY
              \/ /\ df = 0 /\ dr = 2 * up /\ target = EMPTY
                 /\ square_rank(m.from_square) \in double_from
                 /\ b.pieces[m.from_square + 8 * up] = EMPTY
           /\ IF last_rank THEN m.promotion \in PromotionTypes ELSE m.promotion = 0
        \/ /\ IsEnPassant(b, m)
           /\ m.promotion = 0

\* Board.is_pseudo_legal(move)
is_pseudo_legal(b, m) ==
    /\ m # NullMove
    /\ m.drop = 0
    /\ b.pieces[m.from_square] # EMPTY
    /\ IsOwnPiece(b, b.pieces[m.from_square])
    /\ m.promotion # 0
          => /\ Letter(b.pieces[m.from_square]) = "p"
             /\ square_rank(m.to_square) = (IF b.turn = WHITE THEN 7 ELSE 0)
    /\ \/ /\ Letter(b.pieces[m.from_square]) = "k"
          /\ IsCastlingMove(b, from_chess960(b, m))
       \/ /\ ~IsOwnPiece(b, b.pieces[m.to_square])
          /\ IF Letter(b.pieces[m.from_square]) = "p"
             THEN IsPawnMove(b, m)
             ELSE Attacks(b.pieces, m.from_square, m.to_square)

\* Board.is_castling(move)
is_castling(b, m) ==
    /\ Letter(b.pieces[m.from_square]) = "k"
    /\ \/ Abs(square_file(m.from_square) - square_file(m.to_square)) > 1
       \/ b.pieces[m.to_square] = Sym(b.turn, "r")

\* Board.is_en_passant(move)
is_en_passant(b, m) ==
    /\ b.ep_square = m.to_square
    /\ Letter(b.pieces[m.from_square]) = "p"
    /\ Abs(m.to_square - m.from_square) \in {7, 9}
    /\ b.pieces[m.to_square] = EMPTY

\* the placement after the pieces of a move are moved, as Board.push does it:
\* castling moves king and rook, an en passant capture removes the pawn
\* passed, a promotion replaces the pawn
MovePiece(b, m) ==
    LET p == b.pieces[m.from_square]
        back == square_rank(m.from_square)
        a_side == square_file(m.to_square) < square_file(m.from_square)
        placed == IF m.promotion # 0 THEN PieceSymbol(m.promotion, b.turn) ELSE p
    IN  IF is_castling(b, m)
        THEN LET rook_sq == square(IF a_side THEN 0 ELSE 7, back)
             IN  [[[b.pieces EXCEPT ![m.from_square] = EMPTY] EXCEPT ![rook_sq] = EMPTY]
                     EXCEPT ![square(IF a_side THEN 2 ELSE 6, back)] = p,
                            ![square(IF a_side THEN 3 ELSE 5, back)] = Sym(b.turn, "r")]
        ELSE IF is_en_passant(b, m)
        THEN [b.pieces EXCEPT ![m.from_square] = EMPTY,
                              ![m.to_square] = placed,
                              ![square(square_file(m.to_square), back)] = EMPTY]
        ELSE [b.pieces EXCEPT ![m.from_square] = EMPTY, ![m.to_square] = placed]

\* Board.is_into_check(move): the mover's king is attacked after the move
is_into_check(b, m) == KingAttacked(MovePiece(b, m), b.turn)

\* Board.is_legal(move), which is `move in board.legal_moves` (game.py:125)
is_legal(b, m) == is_pseudo_legal(b, m) /\ ~is_into_check(b, m)

\* the squares a piece with the letter could go to from a square of the
\* empty board by its way of moving alone (a king also by castling)
ReachOf(letter, from) ==
    { to \in Squares \ {from} :
        LET df == square_file(to) - square_file(from)
            dr == square_rank(to) - square_rank(from)
        IN  CASE letter = "p" -> Abs(df) <= 1 /\ Abs(dr) \in {1, 2}
              [] letter = "n" -> <<df, dr>> \in KnightOffsets
              [] letter = "k" -> Abs(df) <= 2 /\ Abs(dr) <= 1
              [] letter = "r" -> df = 0 \/ dr = 0
              [] letter = "b" -> Abs(df) = Abs(dr)
              [] letter = "q" -> df = 0 \/ dr = 0 \/ Abs(df) = Abs(dr) }

ReachTable == [letter \in BlackPieces |-> [from \in Squares |-> ReachOf(letter, from)]]

\* the squares the piece on `from` could go to by its way of moving alone
Reach(b, from) == ReachTable[Letter(b.pieces[from])][from]

\* the promotion fields a move from `from` to `to` can carry
PromotionsOf(b, from, to) ==
    IF Letter(b.pieces[from]) = "p" /\ square_rank(to) \in {0, 7}
    THEN PromotionTypes
    ELSE {0}

\* the squares that hold a piece of the side to move
OwnSquares(b) == { s \in Squares : IsOwnPiece(b, b.pieces[s]) }

\* list(board.legal_moves)
LegalMoves(b) ==
    UNION { UNION { { Move(from, to, pr, 0) : pr \in { q \in PromotionsOf(b, from, to) :
                                                        is_legal(b, Move(from, to, q, 0)) } }
                    : to \in Reach(b, from) }
            : from \in OwnSquares(b) }

\* any(board.generate_legal_moves())
AnyLegalMove(b) ==
    \E from \in Squares :
        /\ IsOwnPiece(b, b.pieces[from])
        /\ \E to \in Reach(b, from) :
              \E pr \in PromotionsOf(b, from, to) : is_legal(b, Move(from, to, pr, 0))

\* Board.is_checkmate()
is_checkmate(b) == is_check(b) /\ ~AnyLegalMove(b)

\* Board.is_stalemate()
is_stalemate(b) == ~is_check(b) /\ ~AnyLegalMove(b)

\* the pieces of one side, as a set of squares
SquaresOf(pieces, color) == { s \in Squares : IsPieceOf(color, pieces[s]) }

\* the squares holding a piece of either side with one of the letters
SquaresWith(pieces, letters) == { s \in Squares : Letter(pieces[s]) \in letters }

\* chess.BB_DARK_SQUARES holds the square
IsDarkSquare(s) == (square_file(s) + square_rank(s)) % 2 = 0

\* Board.has_insufficient_material(color)
has_insufficient_material(pieces, color) ==
    LET own == SquaresOf(pieces, color)
        other == SquaresOf(pieces, ~color)
        bishops == SquaresWith(pieces, {"b"})
    IN  IF \E s \in Squares : pieces[s] \in {Sym(color, "p"), Sym(color, "r"), Sym(color, "q")}
        THEN FALSE
        ELSE IF own \cap SquaresWith(pieces, {"n"}) # {}
        THEN /\ Cardinality(own) <= 2
             /\ other \cap SquaresWith(pieces, {"p", "n", "b", "r"}) = {}
        ELSE IF own \cap bishops # {}
        THEN /\ \/ \A s \in bishops : ~IsDarkSquare(s)
                \/ \A s \in bishops : IsDarkSquare(s)
             /\ SquaresWith(pieces, {"p", "n"}) = {}
        ELSE TRUE

\* Board.is_insufficient_material()
is_insufficient_material(b) ==
    has_insufficient_material(b.pieces, WHITE) /\ has_insufficient_material(b.pieces, BLACK)

\* Board.is_variant_draw(): standard chess has none
is_variant_draw(b) == FALSE

\* Board.is_zeroing(move): a pawn moves or is taken, or a piece of the other
\* side is taken
is_zeroing(b, m) ==
    \/ Letter(b.pieces[m.from_square]) = "p"
    \/ Letter(b.pieces[m.to_square]) = "p"
    \/ IsPieceOf(~b.turn, b.pieces[m.from_square])
    \/ IsPieceOf(~b.turn, b.pieces[m.to_square])

\* Board._reduces_castling_rights(move)
reduces_castling_rights(b, m) ==
    LET cr == clean_castling_rights(b)
        touched == {m.from_square, m.to_square}
    IN  \/ touched \cap cr # {}
        \/ cr \cap {A1, H1} # {} /\ \E s \in touched : b.pieces[s] = "K"
        \/ cr \cap {A8, H8} # {} /\ \E s \in touched : b.pieces[s] = "k"

\* the en passant captures that are legal
LegalEnPassant(b) ==
    IF b.ep_square = -1 THEN {}
    ELSE { m \in { Move(from, b.ep_square, 0, 0) : from \in OwnSquares(b) } :
             IsEnPassant(b, m) /\ ~is_into_check(b, m) }

\* Board.has_legal_en_passant()
has_legal_en_passant(b) == LegalEnPassant(b) # {}

\* Board.is_irreversible(move)
is_irreversible(b, m) ==
    is_zeroing(b, m) \/ reduces_castling_rights(b, m) \/ has_legal_en_passant(b)

\* Board._transposition_key(): placement, turn, the castling rights in force
\* and the en passant square when a capture on it is legal
transposition_key(b) ==
    [pieces |-> b.pieces, turn |-> b.turn,
     castling |-> clean_castling_rights(b),
     ep |-> IF has_legal_en_passant(b) THEN b.ep_square ELSE -1]

\* how often `key` occurs among the positions since the last irreversible move
Count(seen, key) == IF key \in DOMAIN seen THEN seen[key] ELSE 0

AddPosition(seen, key) ==
    [k \in (DOMAIN seen) \cup {key} |-> Count(seen, k) + (IF k = key THEN 1 ELSE 0)]

\* the board fields after Board.push(move), the position count apart
Pushed(b, m) ==
    LET p == b.pieces[m.from_square]
        up == IF b.turn = WHITE THEN 1 ELSE -1
        back == IF b.turn = WHITE THEN 0 ELSE 7
        diff == m.to_square - m.from_square
    IN  [pieces |-> MovePiece(b, m),
         turn |-> ~b.turn,
         castling_rights |->
            { s \in clean_castling_rights(b) :
                /\ s \notin {m.from_square, m.to_square}
                /\ ~(Letter(p) = "k" /\ square_rank(s) = back) },
         ep_square |-> IF /\ Letter(p) = "p"
                          /\ diff = 16 * up
                          /\ square_rank(m.from_square) = (IF b.turn = WHITE THEN 1 ELSE 6)
                       THEN m.from_square + 8 * up
                       ELSE -1,
         halfmove_clock |-> IF is_zeroing(b, m) THEN 0 ELSE b.halfmove_clock + 1,
         fullmove_number |-> IF b.turn = BLACK THEN b.fullmove_number + 1
                             ELSE b.fullmove_number,
         ply |-> b.ply + 1,
         seen |-> <<>>]

\* Board.push(move): game.py:126.  `seen` counts, per transposition key, the
\* positions that can_claim_threefold_repetition() and is_repetition() visit
\* when they unwind the move stack down to the last irreversible move
push(b, m) ==
    LET after == Pushed(b, m)
    IN  [after EXCEPT !.seen = IF is_irreversible(b, m)
                               THEN AddPosition(<<>>, transposition_key(after))
                               ELSE AddPosition(b.seen, transposition_key(after))]

\* chess.Board(): game.py:104
NewBoard ==
    LET start == [pieces |-> StartPieces, turn |-> WHITE,
                  castling_rights |-> {A1, H1, A8, H8}, ep_square |-> -1,
                  halfmove_clock |-> 0, fullmove_number |-> 1, ply |-> 0, seen |-> <<>>]
    IN  [start EXCEPT !.seen = AddPosition(<<>>, transposition_key(start))]

\* Board.piece_at(square): the symbol, EMPTY for None
piece_at(b, s) == b.pieces[s]

\* Board._is_halfmoves(n)
is_halfmoves(b, n) == b.halfmove_clock >= n /\ AnyLegalMove(b)

\* Board.is_seventyfive_moves()
is_seventyfive_moves(b) == is_halfmoves(b, 150)

\* Board.is_fifty_moves()
is_fifty_moves(b) == is_halfmoves(b, 100)

\* Board.is_repetition(count)
is_repetition(b, count) == Count(b.seen, transposition_key(b)) >= count

\* Board.is_fivefold_repetition()
is_fivefold_repetition(b) == is_repetition(b, 5)

\* Board.can_claim_fifty_moves()
can_claim_fifty_moves(b) ==
    \/ is_fifty_moves(b)
    \/ /\ b.halfmove_clock >= 99
       /\ \E m \in LegalMoves(b) : ~is_zeroing(b, m) /\ is_fifty_moves(push(b, m))

\* Board.can_claim_threefold_repetition(): the position has occurred three
\* times, or a legal move leads to a position that has occurred twice.  Such
\* a move goes between two of the squares on which the two placements differ
can_claim_threefold_repetition(b) ==
    \/ Count(b.seen, transposition_key(b)) >= 3
    \/ \E k \in DOMAIN b.seen :
          /\ b.seen[k] >= 2
          /\ k.turn # b.turn
          /\ LET changed == { s \in Squares : k.pieces[s] # b.pieces[s] }
             IN  \E from \in changed : \E to \in changed :
                    \E pr \in PromotionsOf(b, from, to) :
                        /\ is_legal(b, Move(from, to, pr, 0))
                        /\ transposition_key(Pushed(b, Move(from, to, pr, 0))) = k

\* Board.outcome(claim_draw): the Termination, or "none"
outcome(b, claim_draw) ==
    IF is_checkmate(b) THEN "CHECKMATE"
    ELSE IF is_insufficient_material(b) THEN "INSUFFICIENT_MATERIAL"
    ELSE IF ~AnyLegalMove(b) THEN "STALEMATE"
    ELSE IF is_seventyfive_moves(b) THEN "SEVENTYFIVE_MOVES"
    ELSE IF is_fivefold_repetition(b) THEN "FIVEFOLD_REPETITION"
    ELSE IF claim_draw /\ can_claim_fifty_moves(b) THEN "FIFTY_MOVES"
    ELSE IF claim_draw /\ can_claim_threefold_repetition(b) THEN "THREEFOLD_REPETITION"
    ELSE "none"

\* Board.is_game_over(claim_draw)
is_game_over(b, claim_draw) == outcome(b, claim_draw) # "none"

\* Board.result(claim_draw): game.py:143
result(b, claim_draw) ==
    LET o == outcome(b, claim_draw)
    IN  IF o = "none" THEN "*"
        ELSE IF o = "CHECKMATE" THEN (IF b.turn = WHITE THEN "0-1" ELSE "1-0")
        ELSE "1/2-1/2"

\* Board.fen(): game.py:66, its six fields: placement, side to move, castling
\* rights, the en passant square when a capture on it is legal, the halfmove
\* clock and the move number
fen(b) ==
    [pieces |-> b.pieces, turn |-> b.turn,
     castling |-> clean_castling_rights(b),
     ep |-> IF has_legal_en_passant(b) THEN b.ep_square ELSE -1,
     halfmove_clock |-> b.halfmove_clock, fullmove_number |-> b.fullmove_number]

-----------------------------------------------------------------------------
(* get_llm_move: game.py:62-76                                              *)

\* max_tokens=10
max_tokens == 10

\* stop=["\n", " "]
StopStrings == {NL, SP}

\* The texts a Proposal Source generates at any point of a game, whatever the
\* position: each is a sequence of tokens, a token a piece of text.
ScriptedOutputs ==
    { << <<"g", "1", "f", "3">> >>,
      << <<"f", "3">>, <<"g", "1">> >>,
      << <<"g", "8", "f", "6">> >>,
      << <<"f", "6", "g", "8">> >>,
      << <<"g", "2", "g", "4">> >>,
      << <<"e", "7", "e", "5">> >>,
      << <<"d", "8", "h", "4">> >> }

\* The line a source has by heart, one text for each of the first plies of a
\* game: 1. e4 e5 2. Qh5 Ke7 3. Qxe5, which mates Black.
BookLine ==
    << << <<"e", "2", "e", "4">> >>,
       << <<"e", "7", "e", "5">> >>,
       << <<"d", "1", "h", "5">> >>,
       << <<"e", "8", "e", "7">> >>,
       << <<"h", "5", "e", "5">> >> >>

\* The whole repertoire of a Proposal Source: the texts above, and the ones it
\* generates in the opening only.
RawOutputs ==
    ScriptedOutputs \cup
    { << <<"g", "1", "f", "3">>, <<NL>> >>,
      << <<"g", "1", "f", "3", CR>>, <<NL>> >>,
      << <<NBSP>>, <<"f", "2", "f", "3">>, <<FF>> >>,
      << <<VT, "g", "1", "f", "3">>, <<"U+2003", "U+3000">> >>,
      << <<"g", "8", "f", "6">>, <<" ", "i", "s">>, <<" ", "b", "e", "s", "t">> >>,
      << <<" ", "g", "1">>, <<"f", "3">> >>,
      << <<NL>>, <<"e", "2", "e", "4">> >>,
      << <<TAB>>, <<"g", "1", "f", "3">> >>,
      << <<"g", "1", "f", "3">>, <<TAB>>, <<"o", "k">> >>,
      << <<"I">>, <<" ", "t", "h", "i", "n", "k">>, <<" ", "e", "2", "e", "4">>, <<" ", "i", "s">>, <<" ", "g", "o", "o", "d">> >>,
      <<  >>,
      << <<"z", "9", "z", "9">> >>,
      << <<"0", "0", "0", "0">> >>,
      << <<"P", "@", "e", "4">> >>,
      << <<"U+212A", "@", "e", "4">> >>,
      << <<"U+0130", "@", "e", "4">> >>,
      << <<"X", "@", "e", "4">> >>,
      << <<"G", "1", "F", "3">> >>,
      << <<"E", "2", "E", "4">> >>,
      << <<"e", "2", "e", "5">> >>,
      << <<"e", "7", "e", "8">>, <<"q">> >>,
      << <<"e", "7", "e", "8">>, <<"x">> >>,
      << <<"e", "7", "e", "8">>, <<"k">> >>,
      << <<"e", "2", "e", "2">>, <<"k">> >>,
      << <<"c", "h", "e", "c", "k">>, <<"m", "a", "t", "e">>, <<"!", "!">> >>,
      << <<"g">>, <<"1">>, <<"f">>, <<"3">>, <<"g">>, <<"1">>, <<"f">>, <<"3">>, <<"g">>, <<"1">>, <<"f">>, <<"3">> >> }

\* the text before the first stop string
RECURSIVE BeforeStop(_)
BeforeStop(text) ==
    IF text = <<>> \/ Head(text) \in StopStrings THEN <<>>
    ELSE <<Head(text)>> \o BeforeStop(Tail(text))

\* model(prompt, max_tokens=10, stop=["\n", " "])["choices"][0]["text"]:
\* llama_cpp generates at most max_tokens tokens and cuts the text at the
\* first stop string
CompletionText(tokens) ==
    BeforeStop(Concat(SubSeq(tokens, 1, IF Len(tokens) < max_tokens THEN Len(tokens)
                                        ELSE max_tokens)))

\* the value returned when the model call raises: game.py:76
ErrorText == <<"e", "r", "r", "o", "r">>

\* the exception classes Python 3.11 builds in, each with the names of the
\* classes it names as its bases
ExceptionBases ==
    [ BaseException |-> {},
      BaseExceptionGroup |-> {"BaseException"},
      Exception |-> {"BaseException"},
      GeneratorExit |-> {"BaseException"},
      KeyboardInterrupt |-> {"BaseException"},
      SystemExit |-> {"BaseException"},
      ArithmeticError |-> {"Exception"},
      AssertionError |-> {"Exception"},
      AttributeError |-> {"Exception"},
      BufferError |-> {"Exception"},
      EOFError |-> {"Exception"},
      ImportError |-> {"Exception"},
      LookupError |-> {"Exception"},
      MemoryError |-> {"Exception"},
      NameError |-> {"Exception"},
      OSError |-> {"Exception"},
      ReferenceError |-> {"Exception"},
      RuntimeError |-> {"Exception"},
      StopAsyncIteration |-> {"Exception"},
      StopIteration |-> {"Exception"},
      SyntaxError |-> {"Exception"},
      SystemError |-> {"Exception"},
      TypeError |-> {"Exception"},
      ValueError |-> {"Exception"},
      Warning |-> {"Exception"},
      BlockingIOError |-> {"OSError"},
      BytesWarning |-> {"Warning"},
      ChildProcessError |-> {"OSError"},
      ConnectionError |-> {"OSError"},
      DeprecationWarning |-> {"Warning"},
      EncodingWarning |-> {"Warning"},
      ExceptionGroup |-> {"BaseExceptionGroup", "Exception"},
      FileExistsError |-> {"OSError"},
      FileNotFoundError |-> {"OSError"},
      FloatingPointError |-> {"ArithmeticError"},
      FutureWarning |-> {"Warning"},
      ImportWarning |-> {"Warning"},
      IndentationError |-> {"SyntaxError"},
      IndexError |-> {"LookupError"},
      InterruptedError |-> {"OSError"},
      IsADirectoryError |-> {"OSError"},
      KeyError |-> {"LookupError"},
      ModuleNotFoundError |-> {"ImportError"},
      NotADirectoryError |-> {"OSError"},
      NotImplementedError |-> {"RuntimeError"},
      OverflowError |-> {"ArithmeticError"},
      PendingDeprecationWarning |-> {"Warning"},
      PermissionError |-> {"OSError"},
      ProcessLookupError |-> {"OSError"},
      RecursionError |-> {"RuntimeError"},
      ResourceWarning |-> {"Warning"},
      RuntimeWarning |-> {"Warning"},
      SyntaxWarning |-> {"Warning"},
      TimeoutError |-> {"OSError"},
      UnboundLocalError |-> {"NameError"},
      UnicodeError |-> {"ValueError"},
      UnicodeWarning |-> {"Warning"},
      UserWarning |-> {"Warning"},
      ZeroDivisionError |-> {"ArithmeticError"},
      BrokenPipeError |-> {"ConnectionError"},
      ConnectionAbortedError |-> {"ConnectionError"},
      ConnectionRefusedError |-> {"ConnectionError"},
      ConnectionResetError |-> {"ConnectionError"},
      TabError |-> {"IndentationError"},
      UnicodeDecodeError |-> {"UnicodeError"},
      UnicodeEncodeError |-> {"UnicodeError"},
      UnicodeTranslateError |-> {"UnicodeError"} ]

\* A class is its name (qualified, for a class of a library) and its bases,
\* which are classes: two classes of one name are told apart by their bases.
\* The built-in class of a name:
RECURSIVE Builtin(_)
Builtin(name) == [name |-> name, bases |-> { Builtin(b) : b \in ExceptionBases[name] }]

\* classes that libraries and programs define: the two CancelledError of the
\* standard library, the cancellation of trio, and a class of a program
\* that derives from BaseException
LibraryClasses ==
    { [name |-> "asyncio.CancelledError", bases |-> {Builtin("BaseException")}],
      [name |-> "concurrent.futures.CancelledError",
       bases |-> {[name |-> "concurrent.futures.Error", bases |-> {Builtin("Exception")}]}],
      [name |-> "trio.Cancelled", bases |-> {Builtin("BaseException")}],
      [name |-> "Abort", bases |-> {Builtin("BaseException")}] }

\* no exception raised
NoException == [name |-> "none", bases |-> {}]

\* class.__bases__
Bases(class) == class.bases

\* the class and every class it derives from: class.__mro__
RECURSIVE Ancestors(_)
Ancestors(class) == {class} \cup UNION { Ancestors(b) : b \in Bases(class) }

\* issubclass(class, base): what an `except base` clause asks of the class
\* of a raised exception
issubclass(class, base) == base \in Ancestors(class)

\* the exceptions a model call is made to raise on any turn: an error, and
\* the interrupt of the process while the call runs
SourceExceptions == {Builtin("RuntimeError"), Builtin("KeyboardInterrupt")}

\* a bare `except:`, which catches every exception
IsBaseException(class) == issubclass(class, Builtin("BaseException"))

\* `except Exception` (game.py:74) catches the exceptions whose class derives
\* from Exception
IsException(class) == issubclass(class, Builtin("Exception"))

\* the model call raises an exception that get_llm_move does not catch
Propagates(gen) == gen.raises # NoException /\ ~IsException(gen.raises)

\* get_llm_move(model, board) for a source that would generate gen.tokens, or
\* that raises gen.raises: the text returned, or the exception that leaves
\* the function
get_llm_move(gen) ==
    IF gen.raises = NoException THEN Strip(CompletionText(gen.tokens))
    ELSE IF IsException(gen.raises) THEN ErrorText
    ELSE [raised |-> gen.raises]

\* Move.uci(): the text of a move
MoveText(m) ==
    IF m.drop # 0
    THEN <<WhiteSymbols[m.drop], "@",
           FILE_NAMES[square_file(m.to_square) + 1], RANK_NAMES[square_rank(m.to_square) + 1]>>
    ELSE IF m = NullMove THEN <<"0", "0", "0", "0">>
    ELSE <<FILE_NAMES[square_file(m.from_square) + 1],
           RANK_NAMES[square_rank(m.from_square) + 1],
           FILE_NAMES[square_file(m.to_square) + 1],
           RANK_NAMES[square_rank(m.to_square) + 1]>>
         \o (IF m.promotion # 0 THEN <<PIECE_SYMBOLS[m.promotion]>> ELSE <<>>)

\* the number of plies that make the opening of a game: on these a source
\* answers with any text of its repertoire or with any legal move of the
\* position shown in its prompt
OpenPlies == 1

\* the texts a source may generate with the position b in its prompt: the
\* move of its book for the ply is one of them
Repertoire(b) ==
    (IF b.ply < OpenPlies
     THEN RawOutputs \cup { <<MoveText(m)>> : m \in LegalMoves(b) }
     ELSE ScriptedOutputs)
        \cup (IF b.ply < Len(BookLine) THEN {BookLine[b.ply + 1]} ELSE {})

\* the exceptions a model call may raise with the position b in its prompt:
\* any built-in class and any class of a library in the opening, the two of
\* every turn afterwards
Raisable(b) ==
    IF b.ply < OpenPlies
    THEN { Builtin(name) : name \in DOMAIN ExceptionBases } \cup LibraryClasses
    ELSE SourceExceptions

\* what a Proposal Source can do on one call with the position b in its
\* prompt: generate a text, or raise
Generations(b) ==
    { [tokens |-> t, raises |-> NoException] : t \in Repertoire(b) }
        \cup { [tokens |-> <<>>, raises |-> e] : e \in Raisable(b) }

-----------------------------------------------------------------------------
(* get_player_choice and main: game.py:79-157                               *)

Unset == [error |-> "unset"]
NoTest == [move |-> Unset, fen |-> Unset, ply |-> -1, answer |-> FALSE]
NoReport == [result |-> "", tag |-> "unset", winner_model |-> ""]
NoGeneration == [tokens |-> <<>>, raises |-> NoException]

Init ==
    /\ pc = "choice"
    /\ user_model_name = ""
    /\ bot_model_name = ""
    /\ board = NewBoard
    /\ is_white_turn = TRUE
    /\ current_model_name = ""
    /\ move_uci = <<>>
    /\ move = Unset
    /\ winner = ""
    /\ forfeit = "none"
    /\ report = NoReport
    /\ prompt_fen = Unset
    /\ invoked = ""
    /\ n_invocations = 0
    /\ n_tests = 0
    /\ n_pushes = 0
    /\ tested = NoTest
    /\ raw = NoGeneration

\* the lines typed at the prompt of get_player_choice
InputLines ==
    { <<"1">>, <<"2">>, <<"3">>, <<>>, <<SP, "1", SP>>, <<"2", TAB>>, <<"1", "2">>,
      <<CR, "2">>, <<"o", "n", "e">> }

\* the second choice returning the same name for both seats
PlayerChoiceSameAgent(line) ==
    IF Strip(line) = <<"1">> THEN <<"LLaMA3", "Gemma">>
    ELSE IF Strip(line) = <<"2">> THEN <<"Gemma", "Gemma">>
    ELSE <<>>

\* get_player_choice(): game.py:79-91, for one line of input; <<>> asks again
PlayerChoice(line) ==
    IF Strip(line) = <<"1">> THEN <<"LLaMA3", "Gemma">>
    ELSE IF Strip(line) = <<"2">> THEN <<"Gemma", "LLaMA3">>
    ELSE <<>>

\* game.py:100-105: a line is read, the names are bound and the board is
\* created; input() raises EOFError when the input is closed, which nothing
\* catches
Start ==
    /\ pc = "choice"
    /\ \/ \E line \in InputLines :
             IF PlayerChoice(line) = <<>>
             THEN UNCHANGED <<pc, user_model_name, bot_model_name>>
             ELSE /\ user_model_name' = PlayerChoice(line)[1]
                  /\ bot_model_name' = PlayerChoice(line)[2]
                  /\ pc' = "loop"
       \/ /\ pc' = "crash"
          /\ UNCHANGED <<user_model_name, bot_model_name>>
    /\ board' = NewBoard
    /\ UNCHANGED <<is_white_turn, current_model_name, move_uci, move, winner, forfeit,
                   report, prompt_fen, invoked, n_invocations, n_tests, n_pushes,
                   tested, raw>>

\* a loop that never asks the board whether the game is over
LoopConditionAlways(b) == TRUE

\* the loop condition: game.py:108
LoopCondition(b) == ~is_game_over(b, TRUE)

\* the first player asked on every turn
CurrentModelNameFixed(white_turn, user, bot) == user

\* current_model_name: game.py:114
CurrentModelName(white_turn, user, bot) == IF white_turn THEN user ELSE bot

\* game.py:108-118: the loop test, then the seat to move is resolved
LoopTest ==
    /\ pc = "loop"
    /\ IF LoopCondition(board)
       THEN /\ is_white_turn' = (board.turn = WHITE)
            /\ current_model_name' =
                  CurrentModelName(board.turn = WHITE, user_model_name, bot_model_name)
            /\ pc' = "propose"
       ELSE /\ pc' = "report"
            /\ UNCHANGED <<is_white_turn, current_model_name>>
    /\ UNCHANGED <<user_model_name, bot_model_name, board, move_uci, move, winner,
                   forfeit, report, prompt_fen, invoked, n_invocations, n_tests,
                   n_pushes, tested, raw>>

\* a prompt built once, before the loop, and reused on every turn
PromptFenCached(b) == fen(NewBoard)

\* the position descriptor embedded in the prompt: game.py:65-69
PromptFen(b) == fen(b)

\* game.py:120 with 62-76: the prompt is built from board.fen() and the
\* current model is called once; an exception that get_llm_move does not
\* catch leaves main() as well
Propose ==
    /\ pc = "propose"
    /\ \E gen \in Generations(board) :
          /\ raw' = gen
          /\ IF Propagates(gen)
             THEN /\ pc' = "crash"
                  /\ UNCHANGED move_uci
             ELSE /\ pc' = "parse"
                  /\ move_uci' = get_llm_move(gen)
    /\ prompt_fen' = PromptFen(board)
    /\ invoked' = current_model_name
    /\ n_invocations' = n_invocations + 1
    /\ UNCHANGED <<user_model_name, bot_model_name, board, is_white_turn,
                   current_model_name, move, winner, forfeit, report, n_tests,
                   n_pushes, tested>>

\* the forfeit credited to the seat that acted instead of the other one
ForfeitWinnerSwapped(white_turn, user, bot) == IF white_turn THEN user ELSE bot

\* the winner named by a forfeit message: game.py:129 and 134
ForfeitWinner(white_turn, user, bot) == IF white_turn THEN bot ELSE user

\* the move applied without looking at the answer of the legality test
MoveAcceptedUnchecked(b, m) == TRUE

\* the test of game.py:125
MoveAccepted(b, m) == is_legal(b, m)

\* the branch the try block of game.py:123-136 takes for a proposal text
TurnOutcome(b, uci) ==
    IF from_uci(uci) = ValueError THEN "MalformedProposal"
    ELSE IF MoveAccepted(b, from_uci(uci)) THEN "Applied"
    ELSE "IllegalMove"

\* an illegal move passed over in silence: the loop goes on with the same state
AfterArbitrationSilent(turn_outcome) ==
    IF turn_outcome = "Applied" THEN "push"
    ELSE IF turn_outcome = "IllegalMove" THEN "loop"
    ELSE "report"

\* a bad proposal answered by asking the same source again
AfterArbitrationRetry(turn_outcome) ==
    IF turn_outcome = "Applied" THEN "push" ELSE "propose"

\* a malformed proposal that prints its forfeit but forgets the break
AfterArbitrationNoBreak(turn_outcome) ==
    IF turn_outcome = "MalformedProposal" THEN "loop"
    ELSE IF turn_outcome = "Applied" THEN "push"
    ELSE "report"

\* where main() goes after the branch: on to board.push (game.py:126), or
\* out of the loop by break (game.py:131 and 136)
AfterArbitration(turn_outcome) ==
    IF turn_outcome = "Applied" THEN "push" ELSE "report"

\* every forfeit reported with the message of the except branch
ForfeitMessageAlwaysFormat(turn_outcome) ==
    IF turn_outcome = "Applied" THEN "none" ELSE "invalid format"

\* the forfeit message printed by a branch: game.py:130 and 135
ForfeitMessage(turn_outcome) ==
    IF turn_outcome = "MalformedProposal" THEN "invalid format"
    ELSE IF turn_outcome = "IllegalMove" THEN "illegal move"
    ELSE "none"

\* game.py:123-125 and 127-136: the text is parsed and, when it parses, the
\* move is tested; a forfeit message is printed and the loop left otherwise
Arbitrate ==
    /\ pc = "parse"
    /\ IF from_uci(move_uci) = ValueError
       THEN UNCHANGED <<move, tested, n_tests>>
       ELSE /\ move' = from_uci(move_uci)
            /\ tested' = [move |-> from_uci(move_uci), fen |-> fen(board),
                          ply |-> board.ply, answer |-> is_legal(board, from_uci(move_uci))]
            /\ n_tests' = n_tests + 1
    /\ IF TurnOutcome(board, move_uci) = "Applied"
       THEN UNCHANGED <<forfeit, winner>>
       ELSE /\ forfeit' = ForfeitMessage(TurnOutcome(board, move_uci))
            /\ winner' = ForfeitWinner(is_white_turn, user_model_name, bot_model_name)
    /\ pc' = AfterArbitration(TurnOutcome(board, move_uci))
    /\ UNCHANGED <<user_model_name, bot_model_name, board, is_white_turn,
                   current_model_name, move_uci, report, prompt_fen, invoked,
                   n_invocations, n_pushes, raw>>

\* game.py:126: board.push(move), then back to the loop test
Push ==
    /\ pc = "push"
    /\ board' = push(board, move)
    /\ n_pushes' = n_pushes + 1
    /\ pc' = "loop"
    /\ UNCHANGED <<user_model_name, bot_model_name, is_white_turn, current_model_name,
                   move_uci, move, winner, forfeit, report, prompt_fen, invoked,
                   n_invocations, n_tests, tested, raw>>

\* the second player named winner of every checkmate
CheckmateWinnerAlwaysBot(b, user, bot) == bot

\* winner_model of the checkmate branch: game.py:145-146
CheckmateWinner(b, user, bot) ==
    LET winner_color == IF b.turn = WHITE THEN "Black" ELSE "White"
    IN  IF winner_color = "Black" THEN bot ELSE user

\* the message chosen by the if/elif chain of game.py:144-157
ResultTag(b) ==
    IF is_checkmate(b) THEN "Checkmate"
    ELSE IF is_stalemate(b) THEN "Stalemate"
    ELSE IF is_insufficient_material(b) THEN "DrawInsufficientMaterial"
    ELSE IF is_seventyfive_moves(b) THEN "DrawBy75MoveRule"
    ELSE IF is_fivefold_repetition(b) THEN "DrawByFivefoldRepetition"
    ELSE IF is_variant_draw(b) THEN "DrawByVariantRules"
    ELSE "none"

\* game.py:138-157: the result display
Report ==
    /\ pc = "report"
    /\ report' = [result |-> result(board, TRUE),
                  tag |-> ResultTag(board),
                  winner_model |-> IF is_checkmate(board)
                                   THEN CheckmateWinner(board, user_model_name,
                                                        bot_model_name)
                                   ELSE ""]
    /\ pc' = "done"
    /\ UNCHANGED <<user_model_name, bot_model_name, board, is_white_turn,
                   current_model_name, move_uci, move, winner, forfeit, prompt_fen,
                   invoked, n_invocations, n_tests, n_pushes, tested, raw>>

Next == Start \/ LoopTest \/ Propose \/ Arbitrate \/ Push \/ Report

Spec == Init /\ [][Next]_vars

-----------------------------------------------------------------------------
(* Properties                                                              *)

\* the game is over for main(): the loop has been left
Resolved == pc \in {"report", "done"}

\* the call of a Proposal Source was left by an exception that nothing
\* catches: the turn has no proposal text and main() has ended with it
CallAborted == pc = "crash" /\ Propagates(raw)

\* get_player_choice has returned: the game has begun
ChoiceReturned == pc # "choice" /\ (pc = "crash" => n_invocations > 0)

\* the number of forfeits declared so far
Forfeits == IF forfeit = "none" THEN 0 ELSE 1

\* the agent bound to a side: White is user_model_name, Black is bot_model_name
AgentOf(turn) == IF turn = WHITE THEN user_model_name ELSE bot_model_name

\* C1: a turn whose proposal fails to parse, or parses to a move that is not
\* legal, ends the game on that turn; the winner is the agent bound to the
\* side that was not to move (White to move: bot_model_name, Black to move:
\* user_model_name); the forfeit is "invalid format" exactly when the text
\* does not parse and "illegal move" exactly when it parses to an illegal move.
C1_ForfeitEndsGameForOtherSeat ==
    /\ (pc \notin {"choice", "loop", "propose", "parse"}
          /\ ~CallAborted
          /\ n_invocations > n_pushes
          /\ ( from_uci(move_uci) = ValueError
               \/ ~is_legal(board, from_uci(move_uci)) ))
       => /\ Resolved
          /\ forfeit # "none"
    /\ forfeit # "none"
       => /\ Resolved
          /\ winner = AgentOf(~board.turn)
          /\ current_model_name = AgentOf(board.turn)
          /\ winner # current_model_name
          /\ (forfeit = "invalid format") <=> (from_uci(move_uci) = ValueError)
          /\ (forfeit = "illegal move") <=>
                ( from_uci(move_uci) # ValueError
                  /\ ~is_legal(board, from_uci(move_uci)) )

\* C1 witness: Black proposed a text that parses to an illegal move after at
\* least one move was played, and the White agent was declared winner
C1_Witness ==
    /\ pc = "done"
    /\ forfeit = "illegal move"
    /\ board.turn = BLACK
    /\ board.ply > 0
    /\ winner = user_model_name

\* C2: the board changes only by board.push of the move that the last
\* legality test was about, that test ran on the very state being changed and
\* it answered true.
C2_PushOnlyAfterLegalityTest ==
    [][ board' # board =>
          /\ pc = "push"
          /\ tested.answer = TRUE
          /\ tested.move = move
          /\ tested.fen = fen(board)
          /\ tested.ply = board.ply
          /\ is_legal(board, move)
          /\ n_tests = n_invocations
          /\ board' = push(board, move) ]_vars

\* C2 witness: two moves have been pushed
C2_Witness == n_pushes = 2 /\ board.ply = 2 /\ pc = "loop"

\* the draw messages that name a rule: game.py:152-157
DrawByRuleTags == {"DrawBy75MoveRule", "DrawByFivefoldRepetition", "DrawByVariantRules"}

\* C3, as claimed: when the loop is left because is_game_over(claim_draw=True)
\* holds, the report prints exactly one of the messages of its chain, and for
\* a move-count or repetition draw that message is a draw-by-rule message and
\* nobody is named winner.
C3_TerminalExitEmitsOneTag ==
    (pc = "done" /\ forfeit = "none")
    => /\ report.tag \in {"Checkmate", "Stalemate", "DrawInsufficientMaterial"}
                           \cup DrawByRuleTags
       /\ outcome(board, TRUE) \in {"FIFTY_MOVES", "THREEFOLD_REPETITION",
                                     "SEVENTYFIVE_MOVES", "FIVEFOLD_REPETITION"}
          => /\ report.tag \in DrawByRuleTags
             /\ report.winner_model = ""
             /\ winner = ""

\* C4: the terminal test comes before every proposal: no Proposal Source is
\* called, and no proposal is parsed or applied, for a state on which
\* is_game_over(claim_draw=True) holds; and when the final state is checkmate
\* the report names the agent bound to the side not to move.
C4_TerminalTestBeforeProposal ==
    /\ pc \in {"propose", "parse", "push"} => ~is_game_over(board, TRUE)
    /\ (Resolved /\ forfeit = "none") => is_game_over(board, TRUE) /\ n_invocations = board.ply
    /\ (pc = "done" /\ is_checkmate(board))
       => /\ report.tag = "Checkmate"
          /\ report.winner_model = AgentOf(~board.turn)
          /\ board.turn = WHITE => report.winner_model = bot_model_name
          /\ board.turn = BLACK => report.winner_model = user_model_name

\* C4 witness: Black is to move and checkmated; the terminal test ended the
\* game before a proposal was asked of the Black agent, and the White agent
\* is named winner
C4_Witness ==
    /\ pc = "done"
    /\ is_checkmate(board)
    /\ board.turn = BLACK
    /\ report.tag = "Checkmate"
    /\ report.winner_model = user_model_name
    /\ invoked = user_model_name
    /\ n_invocations = board.ply
    /\ forfeit = "none"

\* C5: every arbitrated turn has exactly one outcome, fixed by the text and
\* the state: a forfeit by invalid format iff the text does not parse, a
\* forfeit by illegal move iff it parses to a move that is not legal, the
\* move on its way to board.push iff it parses and is legal; main() is never
\* back at the loop test or at a proposal with a turn unaccounted for.  (A
\* call that did not return has produced no text: its turn is not arbitrated.)
C5_ExactlyOneOutcomePerTurn ==
    /\ n_invocations = n_pushes + Forfeits
                         + (IF pc \in {"parse", "push"} \/ CallAborted THEN 1 ELSE 0)
    /\ pc \in {"loop", "propose"} => forfeit = "none"
    /\ pc = "push" => forfeit = "none"
    /\ (pc \in {"push", "report", "done"} /\ n_invocations > n_pushes)
       => LET m == from_uci(move_uci)
          IN  /\ (forfeit = "invalid format") <=> (m = ValueError)
              /\ (forfeit = "illegal move") <=> (m # ValueError /\ ~is_legal(board, m))
              /\ (pc = "push") <=> (m # ValueError /\ is_legal(board, m))

\* C5 witness: one turn of each outcome has happened in this game: a move
\* was applied and the next proposal, which parses, was found illegal
C5_Witness ==
    /\ pc = "report"
    /\ n_pushes = 1
    /\ forfeit = "illegal move"
    /\ from_uci(move_uci) # ValueError

\* C6: after k applied turns the side to move is White iff k is even, the
\* board holds k plies, and the proposal of the turn in progress was asked of
\* the agent bound to that side, so consecutive turns ask opposite seats.
C6_StrictAlternation ==
    /\ board.ply = n_pushes
    /\ (board.turn = WHITE) <=> (n_pushes % 2 = 0)
    /\ board.fullmove_number = 1 + (n_pushes \div 2)
    /\ pc \in {"parse", "push"}
       => /\ invoked = AgentOf(n_pushes % 2 = 0)
          /\ n_invocations = n_pushes + 1

\* C6 witness: White's g1f3 on the starting position was applied: Black is to
\* move, one ply is played, and Black's agent has been asked for the next move
C6_Witness ==
    /\ pc = "parse"
    /\ board.ply = 1
    /\ board.turn = BLACK
    /\ board.pieces[F3] = "N"
    /\ invoked = bot_model_name

\* C7, as claimed: whatever exception the Proposal Source call raises,
\* get_llm_move returns a text that does not parse, the acting seat forfeits
\* by invalid format, no move is tested or applied on that turn, and main()
\* goes on to the result display: the exception never ends the process.
C7_AnyFailureIsMalformed ==
    (raw.raises # NoException /\ n_invocations > 0)
    => /\ pc \in {"parse", "report", "done"}
       /\ from_uci(move_uci) = ValueError
       /\ n_pushes = n_invocations - 1
       /\ Resolved => forfeit = "invalid format"

\* C7, amended: when the Proposal Source call raises an exception whose class
\* is Exception or derives from it (RuntimeError, ValueError, OSError,
\* MemoryError, ExceptionGroup, concurrent.futures.CancelledError, ...), the
\* text that get_llm_move returns does not parse, no move is tested or
\* applied on that turn, and the acting seat forfeits by invalid format; an
\* exception whose class does not derive from Exception (BaseException
\* itself, KeyboardInterrupt, SystemExit, GeneratorExit, BaseExceptionGroup,
\* asyncio.CancelledError, trio.Cancelled, a class of the program declared
\* on BaseException) is not caught: it ends the process on that turn, with
\* no forfeit declared and no move tested or applied.
C7_SourceFailureIsMalformed ==
    /\ (raw.raises # NoException /\ IsException(raw.raises))
       => /\ move_uci = ErrorText
          /\ from_uci(move_uci) = ValueError
          /\ TurnOutcome(board, move_uci) = "MalformedProposal"
          /\ pc \in {"parse", "report", "done"}
          /\ n_pushes = n_invocations - 1
          /\ n_tests = n_invocations - 1
          /\ Resolved => /\ forfeit = "invalid format"
                         /\ winner = AgentOf(~board.turn)
    /\ Propagates(raw)
       => /\ pc = "crash"
          /\ forfeit = "none"
          /\ n_pushes = n_invocations - 1
          /\ n_tests = n_invocations - 1
          /\ board.ply = n_pushes
    /\ raw.raises.name \in {"BaseException", "KeyboardInterrupt", "SystemExit",
                            "GeneratorExit", "BaseExceptionGroup",
                            "asyncio.CancelledError", "trio.Cancelled", "Abort"}
       => pc = "crash"
    /\ raw.raises.name \in {"Exception", "RuntimeError", "ValueError", "OSError",
                            "MemoryError", "ExceptionGroup", "TimeoutError",
                            "UnicodeDecodeError", "concurrent.futures.CancelledError"}
       => pc \in {"parse", "report", "done"}

\* C7 witness: the call raised a RuntimeError on Black's turn and White's
\* agent won by forfeit
C7_Witness ==
    /\ raw.raises = Builtin("RuntimeError")
    /\ pc = "done"
    /\ board.turn = BLACK
    /\ forfeit = "invalid format"
    /\ winner = user_model_name

\* C8: the Proposal Source is called once per turn: the calls number the
\* applied moves plus the forfeit (none or one) plus the turn in progress; a
\* new call is made only when every earlier call ended in an applied move;
\* while a turn is unresolved the source called is the one bound to the side
\* to move.  (A call that an uncaught exception left stays outstanding.)
C8_OneInvocationPerTurn ==
    /\ n_invocations - n_pushes - Forfeits \in {0, 1}
    /\ (n_invocations - n_pushes - Forfeits = 1)
          <=> (pc \in {"parse", "push"} \/ CallAborted)
    /\ pc = "propose" => n_invocations = n_pushes /\ n_invocations = board.ply
    /\ pc = "done" => n_invocations = n_pushes + Forfeits
    /\ pc \in {"parse", "push"} => invoked = AgentOf(board.turn)

\* C8 witness: a game of three applied moves and a forfeit took four calls
C8_Witness ==
    /\ pc = "done"
    /\ n_pushes = 3
    /\ forfeit # "none"
    /\ n_invocations = 4

\* C9: once the game is resolved, by a forfeit or by the terminal test, it
\* stays resolved: no further call of a Proposal Source, legality test or
\* push happens, the board and the forfeit result do not change, and the
\* report, once printed, does not change.
C9_ResolvedIsAbsorbing ==
    [][ (Resolved \/ forfeit # "none")
        => /\ Resolved'
           /\ board' = board
           /\ n_invocations' = n_invocations
           /\ n_tests' = n_tests
           /\ n_pushes' = n_pushes
           /\ forfeit' = forfeit
           /\ winner' = winner
           /\ pc = "done" => report' = report ]_vars

\* C9 witness: the game is over after a forfeit and the report is printed
C9_Witness ==
    /\ pc = "done"
    /\ forfeit = "invalid format"
    /\ report.tag = "none"
    /\ n_pushes > 0

\* the text of a generation up to its first line break
RECURSIVE FirstLine(_)
FirstLine(text) ==
    IF text = <<>> \/ Head(text) = NL THEN <<>>
    ELSE <<Head(text)>> \o FirstLine(Tail(text))

\* the characters up to the first white space
RECURSIVE UpToWhitespace(_)
UpToWhitespace(text) ==
    IF text = <<>> \/ Head(text) \in Whitespace THEN <<>>
    ELSE <<Head(text)>> \o UpToWhitespace(Tail(text))

\* the first whitespace-delimited token of the text up to its first line break
FirstToken(text) == UpToWhitespace(LStrip(FirstLine(text)))

\* C10, as claimed: whatever the Proposal Source generates, leading space or
\* line break included, the text handed to the parser is the first
\* whitespace-delimited token of the generation up to its first line break,
\* and it has at most 10 characters.
C10_CandidateIsFirstToken ==
    (n_invocations > 0 /\ raw.raises = NoException)
    => /\ move_uci = FirstToken(Concat(raw.tokens))
       /\ Len(move_uci) <= 10

\* str.lower() of a text
LowerText(text) == Concat([i \in 1..Len(text) |-> Lower(text[i])])

\* an upper-case character: one that str.lower() changes
IsUpper(c) == Lower(c) # <<c>>

\* the text has the shape of a drop, a piece letter then "@" then a square
IsDropForm(text) == Len(text) = 4 /\ text[2] = "@"

\* an upper-case letter stands anywhere but in the piece letter of a drop
HasUpperCaseSquare(text) ==
    \E i \in 1..Len(text) : IsUpper(text[i]) /\ ~(i = 1 /\ IsDropForm(text))

\* a turn is in progress or was forfeited: move_uci is its proposal and the
\* board is the state it was made for
TurnTextCurrent == n_invocations > n_pushes /\ ~CallAborted

\* C11, as claimed: the outcome of a proposal text is the outcome of its
\* lower-cased form, in every state.
C11_CaseInsensitiveOutcome ==
    TurnTextCurrent
    => TurnOutcome(board, move_uci) = TurnOutcome(board, LowerText(move_uci))

\* C11, amended: square letters are case-sensitive.  A proposal text with an
\* upper-case letter anywhere but in the piece letter of a drop does not
\* parse: its turn is MalformedProposal, it is never applied and it forfeits
\* by invalid format, whatever its lower-cased form would do.
C11_UpperCaseIsMalformed ==
    (TurnTextCurrent /\ HasUpperCaseSquare(move_uci))
    => /\ from_uci(move_uci) = ValueError
       /\ TurnOutcome(board, move_uci) = "MalformedProposal"
       /\ pc # "push"
       /\ Resolved => forfeit = "invalid format"

\* C11 witness: "G1F3" on the starting position forfeited by invalid format
\* although "g1f3" would have been applied
C11_Witness ==
    /\ pc = "done"
    /\ board.ply = 0
    /\ move_uci = <<"G", "1", "F", "3">>
    /\ forfeit = "invalid format"
    /\ TurnOutcome(board, LowerText(move_uci)) = "Applied"

\* the promotion pieces of chess
PromotionLetters == {"q", "r", "b", "n"}

\* two characters that name a square: a file a-h, then a rank 1-8
IsSquareText(f, r) ==
    /\ f \in {"a", "b", "c", "d", "e", "f", "g", "h"}
    /\ r \in {"1", "2", "3", "4", "5", "6", "7", "8"}

\* exactly a source square, a destination square and an optional promotion letter
IsStrictForm(text) ==
    /\ Len(text) \in {4, 5}
    /\ IsSquareText(text[1], text[2])
    /\ IsSquareText(text[3], text[4])
    /\ Len(text) = 5 => text[5] \in PromotionLetters

\* the texts outside the strict form that chess.Move.from_uci accepts: the
\* null move "0000", a drop (piece letter of either case, "@", square), and
\* a move between two different squares with a fifth letter p or k
ParsesOutsideStrictForm(text) ==
    \/ text = <<"0", "0", "0", "0">>
    \/ /\ IsDropForm(text)
       /\ Lower(text[1]) \in {<<"p">>, <<"n">>, <<"b">>, <<"r">>, <<"q">>, <<"k">>}
       /\ IsSquareText(text[3], text[4])
    \/ /\ Len(text) = 5
       /\ IsSquareText(text[1], text[2])
       /\ IsSquareText(text[3], text[4])
       /\ <<text[1], text[2]>> # <<text[3], text[4]>>
       /\ text[5] \in {"p", "k"}

\* C12, as claimed: every proposal text that is not exactly square, square
\* and optional promotion letter is a MalformedProposal and forfeits by
\* invalid format; "0000" and drops such as "P@e4" included.
C12_NonStrictFormIsMalformed ==
    (TurnTextCurrent /\ ~IsStrictForm(move_uci))
    => /\ TurnOutcome(board, move_uci) = "MalformedProposal"
       /\ Resolved => forfeit = "invalid format"

\* C12, amended: a proposal text outside the strict form is never applied
\* and always forfeits.  It is a MalformedProposal (invalid format), except
\* for the texts the parser accepts beyond the strict form, which are
\* "0000", a drop such as "P@e4" and a move between two different squares
\* with a fifth letter p or k: these parse to a move that is never legal and
\* forfeit by illegal move.  (With the same square twice, as in "e2e2k", the
\* text does not parse and is a MalformedProposal.)
C12_NonStrictFormForfeits ==
    (TurnTextCurrent /\ ~IsStrictForm(move_uci))
    => /\ TurnOutcome(board, move_uci) # "Applied"
       /\ pc # "push"
       /\ IF ParsesOutsideStrictForm(move_uci)
          THEN /\ TurnOutcome(board, move_uci) = "IllegalMove"
               /\ Resolved => forfeit = "illegal move"
          ELSE /\ TurnOutcome(board, move_uci) = "MalformedProposal"
               /\ Resolved => forfeit = "invalid format"

\* C12 witness: the null move text "0000" was parsed, tested and forfeited
\* by illegal move
C12_Witness ==
    /\ pc = "done"
    /\ move_uci = <<"0", "0", "0", "0">>
    /\ tested.move = NullMove
    /\ forfeit = "illegal move"

\* the keys of the models dictionary: game.py:105
ModelNames == {"LLaMA3", "Gemma"}

\* C13: once get_player_choice has returned, user_model_name and
\* bot_model_name never change, they are the two different model names, and
\* on every turn the model resolved and called is user_model_name when White
\* is to move and bot_model_name when Black is.
C13_SeatBindingFixed ==
    /\ [](ChoiceReturned
          => /\ user_model_name \in ModelNames
             /\ bot_model_name \in ModelNames
             /\ user_model_name # bot_model_name
             /\ pc \in {"propose", "parse", "push"}
                => /\ is_white_turn = (board.turn = WHITE)
                   /\ current_model_name = AgentOf(board.turn)
             /\ pc \in {"parse", "push"} => invoked = AgentOf(board.turn))
    /\ [][ChoiceReturned
          => /\ user_model_name' = user_model_name
             /\ bot_model_name' = bot_model_name]_vars

\* C13 witness: with Gemma chosen for White, LLaMA3 was asked on Black's turn
\* and Gemma again on White's next turn
C13_Witness ==
    /\ pc = "parse"
    /\ user_model_name = "Gemma"
    /\ bot_model_name = "LLaMA3"
    /\ board.ply = 2
    /\ board.turn = WHITE
    /\ invoked = "Gemma"

\* Board.is_game_over(claim_draw=True) reports a claimable fifty-move draw
\* before the halfmove clock passes 100, and the clock is reset only by a
\* pawn move (at most 6 for each of 16 pawns) or a capture (at most 30): the
\* Rules Oracle ends every game within this many plies
PlyBound == 100 * (16 * 6 + 30 + 1)

\* how far main() has got: four steps to a ply, then the result display
Progress ==
    4 * board.ply +
        ( CASE pc = "choice" -> 0
            [] pc = "loop" -> 1
            [] pc = "propose" -> 2
            [] pc = "parse" -> 3
            [] pc = "push" -> 4
            [] pc = "report" -> 5
            [] pc = "done" -> 6
            [] pc = "crash" -> 7 )

\* the positions of main() from which a step goes on: the loop test, the
\* try block, board.push and the result display are total, and the two steps
\* that take an input have one to take
Running ==
    \/ pc = "choice" /\ ENABLED <<Start>>_vars
    \/ pc = "propose" /\ ENABLED Propose
    \/ pc = "push" /\ ENABLED Push
    \/ pc \in {"loop", "parse", "report"}

\* C14: every game reaches Resolved after finitely many turns: as long as the
\* calls return, main() is at a step that goes on until the result is
\* printed, every step takes it further, and it cannot go further than the
\* plies the Rules Oracle allows, whatever the Proposal Sources answer: a
\* turn is begun only with the halfmove clock below 100, and no position
\* occurs a third time.
C14_GameTerminates ==
    /\ [](/\ pc \notin {"done", "crash"} => Running
          /\ pc = "crash" => (CallAborted \/ n_invocations = 0)
          /\ pc \in {"propose", "parse", "push"} => board.halfmove_clock < 100
          /\ \A k \in DOMAIN board.seen : board.seen[k] <= 2
          /\ board.ply <= PlyBound
          /\ n_invocations <= board.ply + 1
          /\ Progress <= 4 * PlyBound + 7)
    /\ [][Progress' > Progress]_vars

\* C14 witness: a game of twenty plies or more was ended by the terminal
\* test, on a claimable repetition, and reported
C14_Witness ==
    /\ pc = "done"
    /\ forfeit = "none"
    /\ board.ply >= 20
    /\ outcome(board, TRUE) = "THREEFOLD_REPETITION"
    /\ report.result = "1/2-1/2"

\* C16: the position descriptor in the prompt of a turn is the descriptor of
\* the state that the turn's proposal is parsed and tested against, and of
\* no earlier state: while the turn is unresolved, and after it when it ended
\* in a forfeit, the prompt's FEN is the board's FEN, and the legality test
\* of the turn ran on the position of the prompt.
C16_PromptFromCurrentState ==
    /\ TurnTextCurrent => prompt_fen = fen(board)
    /\ (TurnTextCurrent /\ from_uci(move_uci) # ValueError /\ pc # "parse")
       => tested.fen = prompt_fen
    /\ pc \in {"parse", "push"}
       => /\ prompt_fen.turn = board.turn
          /\ prompt_fen.fullmove_number = 1 + (board.ply \div 2)

\* C16 witness: on the third turn the prompt shows the position after two
\* plies, which is not the starting position, and the move was tested on it
C16_Witness ==
    /\ pc = "push"
    /\ board.ply = 2
    /\ prompt_fen = fen(board)
    /\ prompt_fen # fen(NewBoard)
    /\ prompt_fen.pieces # StartPieces
    /\ tested.fen = prompt_fen

\* C17: a forfeiting turn leaves the game state unchanged: the step that
\* declares the forfeit does not touch the board, the board at Resolved is
\* the one shown in the prompt of the forfeiting turn, and the plies on the
\* final board number the applied turns.
C17_ForfeitLeavesStateUnchanged ==
    /\ [](/\ forfeit # "none"
             => /\ fen(board) = prompt_fen
                /\ board.ply = n_invocations - 1
          /\ Resolved => board.ply = n_pushes)
    /\ [][forfeit' # forfeit => board' = board]_vars

\* C17 witness: a game ended by a forfeit on its fourth turn with three
\* plies on the final board
C17_Witness ==
    /\ pc = "done"
    /\ forfeit = "illegal move"
    /\ n_invocations = 4
    /\ board.ply = 3
    /\ n_pushes = 3

\* C18: when the game ends by forfeit the result display prints none of the
\* terminal messages and names no checkmate winner, and its result line is
\* "*": the board of a forfeited game is not a terminal one.
C18_ForfeitReportsNoTerminalTag ==
    (pc = "done" /\ forfeit # "none")
    => /\ report.tag = "none"
       /\ report.winner_model = ""
       /\ report.result = "*"
       /\ ~is_game_over(board, TRUE)
       /\ winner # ""

\* C18 witness: White, with the black queen on h4 and out of check, forfeited
\* by illegal move and only the forfeit winner was reported
C18_Witness ==
    /\ pc = "done"
    /\ forfeit = "illegal move"
    /\ board.turn = WHITE
    /\ board.pieces[H4] = "q"
    /\ winner = bot_model_name
    /\ report.tag = "none"

\* C19: when the game ends in checkmate, the agent the result display names
\* as winner is the agent whose proposal was the last move applied, which is
\* the agent of the last call of a Proposal Source.
C19_CheckmateWinnerMadeLastMove ==
    (pc = "done" /\ is_checkmate(board))
    => /\ report.tag = "Checkmate"
       /\ report.winner_model = invoked
       /\ report.winner_model = current_model_name
       /\ n_invocations = n_pushes
       /\ tested.ply = board.ply - 1
       /\ forfeit = "none"

\* C19 witness: Black's d8h4 was the last move applied, it mated White, and
\* the Black agent is named winner
C19_Witness ==
    /\ pc = "done"
    /\ is_checkmate(board)
    /\ move = Move(D8, H4, 0, 0)
    /\ invoked = bot_model_name
    /\ report.winner_model = bot_model_name

====
